---- MODULE Spec2Model ----
(***************************************************************************)
(* Model of the pglet Python client: the control tree with its attribute   *)
(* store, the reconciler (Control.build_update_commands), the command      *)
(* serializer (Control.get_cmd_str), the identity assignment of            *)
(* Page.__update and the correlated request/reply transport of Connection. *)
(***************************************************************************)
EXTENDS Integers, Sequences, FiniteSets, TLC

\* ------------------------------------------------------------------ bounds
\* Number of control objects the application creates (besides the page).
NumControls == 4
\* Number of replies in one behaviour that are not well-formed successes.
MaxFaults == 1
\* Number of operations (page operations, list mutations, setters) in one
\* behaviour.
MaxOps == 3
\* Number of operations in one behaviour of the page-list specification.
MaxDiffOps == 4
\* Operations in a run that exercises the attribute stores.
MaxAttrOps == 4

\* ------------------------------------------------------------------ nodes
\* The page is the root node; controls are numbered in creation order.
PageNode == 0
Controls == 1 .. NumControls
Nodes == {PageNode} \cup Controls

\* Control.__uid of a control the host has not acknowledged (Python None).
NoUid == "None"
\* Control.__uid of the page: the reserved id "page".
PageUid == "page"
\* The i-th id minted by the host.
HostId(i) == "_" \o ToString(i)

\* Control 1 is a container (Callout: _get_children returns its controls
\* list), the others are leaves (Checkbox: the inherited
\* Control._get_children returns []).
IsContainer(n) == n = PageNode \/ n = 1
\* _get_control_name of a node.
ControlName(n) == IF n = PageNode THEN "page"
                  ELSE IF IsContainer(n) THEN "callout" ELSE "checkbox"

\* Attribute names of the store (lower-cased keys) and the values assigned.
AttrNames == {"id", "label", "signin"}
\* A value kept in the attribute store: a str or a bool; PyNone is the
\* argument None of a setter.
PyStr(s) == [t |-> "str", s |-> s, b |-> FALSE]
PyBool(b) == [t |-> "bool", s |-> "", b |-> b]
PyNone == [t |-> "none", s |-> "", b |-> FALSE]
\* A key that is not in Control.__attrs, and the tuple (value, dirty) of one
\* that is.
NoAttr == [val |-> PyNone, dirty |-> FALSE, present |-> FALSE]
Slot(v, d) == [val |-> v, dirty |-> d, present |-> TRUE]

\* ------------------------------------------------------- sequence helpers
Range(s) == {s[i] : i \in 1 .. Len(s)}
\* Python's s[lo:hi] with 0-based half-open bounds.
Slice(s, lo, hi) == SubSeq(s, lo + 1, hi)
InsertAt(s, i, x) == SubSeq(s, 1, i) \o <<x>> \o SubSeq(s, i + 1, Len(s))
RemoveAt(s, i) == SubSeq(s, 1, i) \o SubSeq(s, i + 2, Len(s))
RECURSIVE Flatten(_)
Flatten(ss) == IF ss = <<>> THEN <<>> ELSE Head(ss) \o Flatten(Tail(ss))
\* F(v) with v evaluated once.
Once(v, F(_)) == CHOOSE r \in {F(x) : x \in {v}} : TRUE

\* --------------------------------------------- difflib.SequenceMatcher
\* Length of the common run a[i:], b[j:] inside a[:ahi], b[:bhi] (0-based).
RECURSIVE RunLen(_, _, _, _, _, _)
RunLen(a, b, i, j, ahi, bhi) ==
    IF i < ahi /\ j < bhi /\ a[i + 1] = b[j + 1]
    THEN 1 + RunLen(a, b, i + 1, j + 1, ahi, bhi)
    ELSE 0

\* find_longest_match(alo, ahi, blo, bhi) without junk: the longest matching
\* block, of those the one starting earliest in a, of those the one starting
\* earliest in b; (alo, blo, 0) when nothing matches.
FindLongestMatch(a, b, alo, ahi, blo, bhi) ==
    LET runs == {<<c[1], c[2], RunLen(a, b, c[1], c[2], ahi, bhi)>> :
                    c \in (alo .. ahi - 1) \X (blo .. bhi - 1)}
        Better(x, y) == \/ x[3] > y[3]
                        \/ x[3] = y[3] /\ x[1] < y[1]
                        \/ x[3] = y[3] /\ x[1] = y[1] /\ x[2] <= y[2]
    IN  IF \A r \in runs : r[3] = 0 THEN <<alo, blo, 0>>
        ELSE CHOOSE x \in runs : \A y \in runs : Better(x, y)

\* get_matching_blocks: the longest match m, then recursively the pieces to
\* its left and to its right, in increasing order.
RECURSIVE MatchingBlocks(_, _, _, _, _, _)
BlocksAround(a, b, alo, ahi, blo, bhi, m) ==
    IF m[3] = 0 THEN <<>>
    ELSE (IF alo < m[1] /\ blo < m[2]
          THEN MatchingBlocks(a, b, alo, m[1], blo, m[2]) ELSE <<>>)
         \o <<m>>
         \o (IF m[1] + m[3] < ahi /\ m[2] + m[3] < bhi
             THEN MatchingBlocks(a, b, m[1] + m[3], ahi, m[2] + m[3], bhi)
             ELSE <<>>)
MatchingBlocks(a, b, alo, ahi, blo, bhi) ==
    CHOOSE blocks \in {BlocksAround(a, b, alo, ahi, blo, bhi, m) :
                          m \in {FindLongestMatch(a, b, alo, ahi, blo, bhi)}} : TRUE

\* get_opcodes: walks the matching blocks (ended by the sentinel
\* (len(a), len(b), 0)) and names the gap before each block.
RECURSIVE OpcodesFrom(_, _, _)
OpcodesFrom(blocks, i, j) ==
    IF blocks = <<>> THEN <<>>
    ELSE LET ai == Head(blocks)[1]
             bj == Head(blocks)[2]
             size == Head(blocks)[3]
             tag == IF i < ai /\ j < bj THEN "replace"
                    ELSE IF i < ai THEN "delete"
                    ELSE IF j < bj THEN "insert" ELSE ""
             gap == IF tag = "" THEN <<>>
                    ELSE <<[tag |-> tag, a1 |-> i, a2 |-> ai, b1 |-> j, b2 |-> bj]>>
             eq == IF size > 0
                   THEN <<[tag |-> "equal", a1 |-> ai, a2 |-> ai + size,
                           b1 |-> bj, b2 |-> bj + size]>>
                   ELSE <<>>
         IN  gap \o eq \o OpcodesFrom(Tail(blocks), ai + size, bj + size)

\* A diff that replaces the whole list when anything changed.
NaiveOpcodes(a, b) ==
    IF a = b
    THEN IF a = <<>> THEN <<>>
         ELSE <<[tag |-> "equal", a1 |-> 0, a2 |-> Len(a), b1 |-> 0, b2 |-> Len(b)]>>
    ELSE <<[tag |-> IF a = <<>> THEN "insert" ELSE IF b = <<>> THEN "delete" ELSE "replace",
            a1 |-> 0, a2 |-> Len(a), b1 |-> 0, b2 |-> Len(b)]>>

GetOpcodes(a, b) ==
    Once(MatchingBlocks(a, b, 0, Len(a), 0, Len(b)) \o <<(<<Len(a), Len(b), 0>>)>>,
         LAMBDA blocks : OpcodesFrom(blocks, 0, 0))

\* ------------------------------------------------------------------ state
VARIABLES
    children,   \* children[n]: the list _get_children() of node n returns
    prev,       \* prev[n]: Control.__previous_children of node n
    uid,        \* uid[n]: Control.__uid of node n
    cpage,      \* cpage[n]: Control.__page of node n is set
    attrs,      \* attrs[n][k]: the slot of key k in Control.__attrs of node n
    index,      \* Page._index: assigned id -> node
    nextId,     \* number of ids the host has minted
    faults,     \* number of replies so far that were not well-formed successes
    nops,       \* number of operations the application has performed
    last,       \* what the last page operation built, sent and returned
    lock,       \* Page._lock: the thread holding it, or NoThread
    callbacks,  \* Connection._ws_callbacks: message id -> (event set, payload)
    wire,       \* the requests sent and not yet answered by the host
    answers,    \* message id -> the payload the host answered it with
    tl,         \* tl[t]: the call thread t is in, with its local variables
    nextMsg,    \* number of message ids drawn so far (uuid4: always fresh)
    events,     \* the events whose routing thread was started and has not run
    closed,     \* Connection.close() was called: the socket is closed
    lastEvent,  \* Page._last_event
    eventAvailable, \* Page._event_available is set
    started,    \* the control events a bound handler thread was started for
    waiters,    \* waiters[t]: where thread t is in Page.wait_event
    got,        \* got[t]: what thread t's last wait_event returned
    local       \* local[t]: where thread t is inside _get_cmd_attrs,
                \* _set_attr_internal, show_signin or
                \* _send_message_with_result, and its local variables

\* The state of the transport and of the application's threads.
tvars == <<lock, callbacks, wire, answers, tl, nextMsg>>
\* The state of event routing and of the socket, and the threads' steps
\* inside the attribute store.
evars == <<events, closed, lastEvent, eventAvailable, started, waiters, got, local>>
vars == <<children, prev, uid, cpage, attrs, index, nextId, faults, nops, last,
          lock, callbacks, wire, answers, tl, nextMsg,
          events, closed, lastEvent, eventAvailable, started, waiters, got,
          local>>

\* ---------------------------------------------------------- wire values
\* A value of Command.attrs / Command.values as it is handed to json.dumps:
\* a str, None, or (for the "id" key of a definition command) the tuple
\* (value, dirty) taken from the attribute store.
StrV(s) == [kind |-> "str", s |-> s, d |-> FALSE]
NoneV == [kind |-> "none", s |-> "", d |-> FALSE]
TupleV(s, d) == [kind |-> "tuple", s |-> s, d |-> d]
UidV(u) == IF u = NoUid THEN NoneV ELSE StrV(u)

\* The string _get_cmd_attrs sends for a stored value: str(val).lower() for
\* a bool, str(val) otherwise.
SVal(v) == IF v.t = "bool" THEN (IF v.b THEN "true" ELSE "false") ELSE v.s

EmptyAttrs == [k \in {} |-> NoneV]
\* Command(indent, name, values, attrs, lines, commands); name "" is None.
Command(indent, name, values, cattrs, commands) ==
    [indent |-> indent, name |-> name, values |-> values, attrs |-> cattrs,
     commands |-> commands]

\* A deletion that leaves the entry in place.
KeepKey(idx, k) == idx
DelKey(idx, k) == [x \in DOMAIN idx \ {k} |-> idx[x]]
PutKey(idx, k, v) == [x \in DOMAIN idx \cup {k} |-> IF x = k THEN v ELSE idx[x]]

\* _get_cmd_attrs that leaves the attributes it sends dirty.
GetCmdAttrsKeepDirty(n, update, a) ==
    IF update /\ uid[n] = NoUid
    THEN [cmd |-> Command(0, "", <<>>, EmptyAttrs, <<>>), attrs |-> a]
    ELSE LET sent == {k \in AttrNames :
                        a[k].present /\ k # "id" /\ (~update \/ a[k].dirty)}
         IN  [cmd |-> Command(0, "", IF update /\ sent # {} THEN <<UidV(uid[n])>> ELSE <<>>,
                              [k \in sent |-> StrV(SVal(a[k].val))], <<>>),
              attrs |-> a]

\* _get_cmd_attrs that skips the clean attributes of a new node as well.
GetCmdAttrsDirtyOnly(n, update, a) ==
    IF update /\ uid[n] = NoUid
    THEN [cmd |-> Command(0, "", <<>>, EmptyAttrs, <<>>), attrs |-> a]
    ELSE LET sent == {k \in AttrNames : a[k].present /\ k # "id" /\ a[k].dirty}
         IN  [cmd |-> Command(0, "", IF update /\ sent # {} THEN <<UidV(uid[n])>> ELSE <<>>,
                              [k \in sent |-> StrV(SVal(a[k].val))], <<>>),
              attrs |-> [k \in AttrNames |->
                           IF k \in sent THEN Slot(a[k].val, FALSE) ELSE a[k]]]

\* _get_cmd_attrs that does not skip the "id" attribute.
GetCmdAttrsWithId(n, update, a) ==
    IF update /\ uid[n] = NoUid
    THEN [cmd |-> Command(0, "", <<>>, EmptyAttrs, <<>>), attrs |-> a]
    ELSE LET sent == {k \in AttrNames : a[k].present /\ (~update \/ a[k].dirty)}
         IN  [cmd |-> Command(0, "", IF update /\ sent # {} THEN <<UidV(uid[n])>> ELSE <<>>,
                              [k \in sent |-> StrV(SVal(a[k].val))], <<>>),
              attrs |-> [k \in AttrNames |->
                           IF k \in sent THEN Slot(a[k].val, FALSE) ELSE a[k]]]

\* ------------------------------------------------ Control._get_cmd_attrs
\* Returns the command and the attribute store of node n afterwards (every
\* attribute put into the command is stored back clean).
GetCmdAttrs(n, update, a) ==
    IF update /\ uid[n] = NoUid
    THEN [cmd |-> Command(0, "", <<>>, EmptyAttrs, <<>>), attrs |-> a]
    ELSE LET sent == {k \in AttrNames :
                        /\ a[k].present
                        /\ k # "id"
                        /\ (~update \/ a[k].dirty)}
             withId == IF ~update /\ a["id"].present THEN sent \cup {"id"} ELSE sent
             cattrs == [k \in withId |->
                          IF k = "id" THEN TupleV(SVal(a[k].val), a[k].dirty)
                          ELSE StrV(SVal(a[k].val))]
             vals == IF update /\ sent # {} THEN <<UidV(uid[n])>> ELSE <<>>
         IN  [cmd |-> Command(0, "", vals, cattrs, <<>>),
              attrs |-> [k \in AttrNames |->
                           IF k \in sent THEN Slot(a[k].val, FALSE) ELSE a[k]]]

\* ------------------------------------ Control._remove_control_recursively
\* ch is the children map the walk reads (control._get_children()).
RECURSIVE RemoveControlRecursively(_, _, _)
RECURSIVE RemoveAll(_, _, _)
RemoveControlRecursively(ch, idx, c) ==
    LET idx1 == RemoveAll(ch, idx, ch[c])
    IN  IF uid[c] \in DOMAIN idx1 THEN DelKey(idx1, uid[c]) ELSE idx1
RemoveAll(ch, idx, cs) ==
    IF cs = <<>> THEN idx
    ELSE RemoveAll(ch, RemoveControlRecursively(ch, idx, Head(cs)), Tail(cs))

\* ------------------------------------------------------ Control.get_cmd_str
\* st carries what a build reads and mutates: the command list, the
\* accumulator of added controls, the index, the previous snapshots, the
\* attribute stores, and the children lists it walks.
RECURSIVE GetCmdStr(_, _, _)
RECURSIVE GetCmdStrEach(_, _, _)
\* A get_cmd_str that serializes the children at their parent's indent.
GetCmdStrFlat(n, indent, st0) ==
    Once(st0, LAMBDA st :
    Once(GetCmdAttrs(n, FALSE, st.attrs[n]), LAMBDA g :
    Once(GetCmdStrEach(st.children[n], indent,
                       [st EXCEPT !.index = IF uid[n] # NoUid /\ uid[n] \in DOMAIN @
                                            THEN DelKey(@, uid[n]) ELSE @,
                                  !.attrs[n] = g.attrs,
                                  !.added = Append(@, n)]), LAMBDA r :
        [out |-> <<[g.cmd EXCEPT !.indent = indent,
                                 !.values = Append(@, StrV(ControlName(n)))]>>
                     \o r.out,
         st |-> [r.st EXCEPT !.prev[n] = st.children[n]]])))
\* A get_cmd_str that leaves the node's old id in the index.
GetCmdStrKeepIndex(n, indent, st0) ==
    Once(st0, LAMBDA st :
    Once(GetCmdAttrs(n, FALSE, st.attrs[n]), LAMBDA g :
    Once(GetCmdStrEach(st.children[n], indent + 2,
                       [st EXCEPT !.attrs[n] = g.attrs,
                                  !.added = Append(@, n)]), LAMBDA r :
        [out |-> <<[g.cmd EXCEPT !.indent = indent,
                                 !.values = Append(@, StrV(ControlName(n)))]>>
                     \o r.out,
         st |-> [r.st EXCEPT !.prev[n] = st.children[n]]])))
GetCmdStr(n, indent, st0) ==
    Once(st0, LAMBDA st :
    Once(GetCmdAttrs(n, FALSE, st.attrs[n]), LAMBDA g :
    Once(GetCmdStrEach(st.children[n], indent + 2,
                       [st EXCEPT !.index = IF uid[n] # NoUid /\ uid[n] \in DOMAIN @
                                            THEN DelKey(@, uid[n]) ELSE @,
                                  !.attrs[n] = g.attrs,
                                  !.added = Append(@, n)]), LAMBDA r :
        [out |-> <<[g.cmd EXCEPT !.indent = indent,
                                 !.values = Append(@, StrV(ControlName(n)))]>>
                     \o r.out,
         st |-> [r.st EXCEPT !.prev[n] = st.children[n]]])))
GetCmdStrEach(cs, indent, st) ==
    IF cs = <<>> THEN [out |-> <<>>, st |-> st]
    ELSE Once(GetCmdStr(Head(cs), indent, st), LAMBDA r :
         Once(GetCmdStrEach(Tail(cs), indent, r.st), LAMBDA rest :
             [out |-> r.out \o rest.out, st |-> rest.st]))

\* ------------------------------------------ Control.build_update_commands
RemoveCommand(ids) == Command(0, "remove", ids, EmptyAttrs, <<>>)
\* An add command that does not carry the position counter.
AddCommandAtZero(n, at, inner) ==
    Command(0, "add", <<>>, [to |-> UidV(uid[n]), at |-> StrV("0")], inner)
AddCommand(n, at, inner) ==
    Command(0, "add", <<>>, [to |-> UidV(uid[n]), at |-> StrV(ToString(at))], inner)

\* "add" commands that all carry the offset of the first.
RECURSIVE AddEachSameOffset(_, _, _, _)
AddEachSameOffset(n, cs, cnt, st) ==
    IF cs = <<>> THEN st
    ELSE Once(GetCmdStr(Head(cs), 0, st), LAMBDA r :
             AddEachSameOffset(n, Tail(cs), cnt,
                     [r.st EXCEPT !.cmds = Append(@, AddCommand(n, cnt, r.out))]))

\* The "add" commands of the controls cs of parent n, the first at offset cnt.
RECURSIVE AddEach(_, _, _, _)
AddEach(n, cs, cnt, st) ==
    IF cs = <<>> THEN st
    ELSE Once(GetCmdStr(Head(cs), 0, st), LAMBDA r :
             AddEach(n, Tail(cs), cnt + 1,
                     [r.st EXCEPT !.cmds = Append(@, AddCommand(n, cnt, r.out))]))

\* The "remove" command of the controls cs.
RemoveEach(cs, st) ==
    [st EXCEPT !.index = RemoveAll(st.children, @, cs),
               !.cmds = Append(@, RemoveCommand([i \in 1 .. Len(cs) |-> UidV(uid[cs[i]])]))]

RECURSIVE BuildUpdateCommands(_, _)
RECURSIVE BuildEach(_, _)
RECURSIVE ProcessOpcodes(_, _, _, _, _)
BuildEach(cs, st) ==
    IF cs = <<>> THEN st
    ELSE Once(BuildUpdateCommands(Head(cs), st), LAMBDA st1 : BuildEach(Tail(cs), st1))
\* The loop over sm.get_opcodes(); cnt is the position counter n.
ProcessOpcodes(n, ops, cnt, pints, st0) ==
    IF ops = <<>> THEN st0
    ELSE Once(st0, LAMBDA st :
         LET o == Head(ops)
             olds == Slice(pints, o.a1, o.a2)
             news == Slice(st.children[n], o.b1, o.b2)
         IN  IF o.tag = "delete"
             THEN ProcessOpcodes(n, Tail(ops), cnt, pints, RemoveEach(olds, st))
             ELSE IF o.tag = "equal"
             THEN ProcessOpcodes(n, Tail(ops), cnt + Len(olds), pints,
                                 BuildEach(olds, st))
             ELSE IF o.tag = "replace"
             THEN ProcessOpcodes(n, Tail(ops), cnt + Len(news), pints,
                                 AddEach(n, news, cnt, RemoveEach(olds, st)))
             ELSE ProcessOpcodes(n, Tail(ops), cnt + Len(news), pints,
                                 AddEach(n, news, cnt, st)))
\* A build_update_commands that leaves the previous snapshot as it found it.
BuildUpdateCommandsKeepSnapshot(n, st0) ==
    Once(st0, LAMBDA st :
    Once(GetCmdAttrs(n, TRUE, st.attrs[n]), LAMBDA g :
    Once(GetOpcodes(st.prev[n], st.children[n]), LAMBDA ops :
        ProcessOpcodes(n, ops, 0, st.prev[n],
                       [st EXCEPT !.attrs[n] = g.attrs,
                                  !.cmds = IF DOMAIN g.cmd.attrs # {}
                                           THEN Append(@, [g.cmd EXCEPT !.name = "set"])
                                           ELSE @]))))
BuildUpdateCommands(n, st0) ==
    Once(st0, LAMBDA st :
    Once(GetCmdAttrs(n, TRUE, st.attrs[n]), LAMBDA g :
    Once(GetOpcodes(st.prev[n], st.children[n]), LAMBDA ops :
    Once(ProcessOpcodes(n, ops, 0, st.prev[n],
                        [st EXCEPT !.attrs[n] = g.attrs,
                                   !.cmds = IF DOMAIN g.cmd.attrs # {}
                                            THEN Append(@, [g.cmd EXCEPT !.name = "set"])
                                            ELSE @]), LAMBDA st2 :
        [st2 EXCEPT !.prev[n] = st.children[n]]))))

\* ------------------------------------------------------- Page.__update
\* The state a build starts from, walking the children lists ch.
StartBuild(ch) ==
    [cmds |-> <<>>, added |-> <<>>, index |-> index, prev |-> prev,
     attrs |-> attrs, children |-> ch]

\* The error strings a host reply may carry ("" is no error).
ErrorStrings == {"boom"}

\* The result lines of a batch accepted by the host: one line per "add"
\* command, holding one fresh id per control the command defines.
RECURSIVE ResultLines(_, _)
ResultLines(cmds, from) ==
    IF cmds = <<>> THEN <<>>
    ELSE IF Head(cmds).name = "add"
    THEN LET k == Len(Head(cmds).commands)
         IN  <<[i \in 1 .. k |-> HostId(from + i)]>>
                 \o ResultLines(Tail(cmds), from + k)
    ELSE ResultLines(Tail(cmds), from)

\* The replies the host may give to a batch: the well-formed one ("ok"), one
\* with an error string (and the ids of what the host had applied), one with
\* an id too many and one with an id too few.
BatchReplies(cmds) ==
    LET lines == ResultLines(cmds, nextId)
        k == Len(Flatten(lines))
        n == Len(lines)
    IN  {[kind |-> "ok", error |-> "", results |-> lines, minted |-> k]}
        \cup {[kind |-> "error", error |-> e, results |-> lines, minted |-> k] :
                e \in ErrorStrings}
        \cup {[kind |-> "more", error |-> "",
               results |-> Append(lines, <<HostId(nextId + k + 1)>>),
               minted |-> k + 1]}
        \cup (IF k = 0 THEN {}
              ELSE {[kind |-> "fewer", error |-> "",
                     results |-> [lines EXCEPT ![n] = SubSeq(@, 1, Len(@) - 1)],
                     minted |-> k - 1]})

\* What the environment may answer within the bounds of the model.
Admissible(reply) == reply.kind # "ok" => faults < MaxFaults
FaultsAfter(reply) == IF reply.kind = "ok" THEN faults ELSE faults + 1

\* A send that returns the reply whatever its error string.
SendNeverRaises(reply) == FALSE

\* Connection.send_commands / send_command: a reply with a non-empty error
\* string raises Exception(result.error) instead of being returned.
SendRaises(reply) == reply.error # ""

\* An assignment loop that sets the id and the page of a control but does
\* not enter it in the index.
RECURSIVE AssignIdsNoIndex(_, _, _, _)
AssignIdsNoIndex(ids, added, k, s) ==
    IF ids = <<>> THEN s
    ELSE IF k > Len(added) THEN [s EXCEPT !.raised = TRUE]
    ELSE AssignIdsNoIndex(Tail(ids), added, k + 1,
                          [s EXCEPT !.uid[added[k]] = Head(ids),
                                    !.cpage[added[k]] = TRUE])

\* An assignment loop that indexes a control under the new id but keeps the
\* id the control already has.
RECURSIVE AssignIdsKeepUid(_, _, _, _)
AssignIdsKeepUid(ids, added, k, s) ==
    IF ids = <<>> THEN s
    ELSE IF k > Len(added) THEN [s EXCEPT !.raised = TRUE]
    ELSE AssignIdsKeepUid(Tail(ids), added, k + 1,
                          [s EXCEPT !.uid[added[k]] =
                                        IF @ = NoUid THEN Head(ids) ELSE @,
                                    !.cpage[added[k]] = TRUE,
                                    !.index = PutKey(@, Head(ids), added[k])])

\* An assignment loop that sets the id but not the page of a control.
RECURSIVE AssignIdsNoPage(_, _, _, _)
AssignIdsNoPage(ids, added, k, s) ==
    IF ids = <<>> THEN s
    ELSE IF k > Len(added) THEN [s EXCEPT !.raised = TRUE]
    ELSE AssignIdsNoPage(Tail(ids), added, k + 1,
                         [s EXCEPT !.uid[added[k]] = Head(ids),
                                   !.index = PutKey(@, Head(ids), added[k])])

\* The id assignment loop of Page.__update over the ids of the reply,
\* added[k] being added_controls[n]; it raises IndexError (raised) when the
\* reply holds more ids than controls were added.
RECURSIVE AssignIds(_, _, _, _)
AssignIds(ids, added, k, s) ==
    IF ids = <<>> THEN s
    ELSE IF k > Len(added) THEN [s EXCEPT !.raised = TRUE]
    ELSE AssignIds(Tail(ids), added, k + 1,
                   [s EXCEPT !.uid[added[k]] = Head(ids),
                             !.cpage[added[k]] = TRUE,
                             !.index = PutKey(@, Head(ids), added[k])])

\* The ids a reply carries, in order.
ReplyIds(reply) == Flatten(reply.results)
\* The operations of Page that end in Page.__update.
SyncOps == {"add", "insert", "remove", "remove_at", "update"}
\* The reply of a call that sent nothing.
NoReply == [kind |-> "none", error |-> "", results |-> <<>>, minted |-> 0]
NoOp == [op |-> "none", cmds |-> <<>>, added |-> <<>>, sent |-> 0,
         raised |-> FALSE, err |-> "", reply |-> NoReply]

\* Page.__update(*roots) after the operation op has set the children lists
\* to ch: build, send the batch if it is not empty, assign the ids.
Update(op, ch, roots) ==
    \E st \in {BuildEach(roots, StartBuild(ch))} :
        /\ children' = ch
        /\ prev' = st.prev
        /\ attrs' = st.attrs
        /\ IF st.cmds = <<>>
           THEN /\ index' = st.index
                /\ UNCHANGED <<uid, cpage, nextId, faults>>
                /\ last' = [NoOp EXCEPT !.op = op, !.added = st.added]
           ELSE \E reply \in BatchReplies(st.cmds) :
                /\ Admissible(reply)
                /\ nextId' = nextId + reply.minted
                /\ faults' = FaultsAfter(reply)
                /\ IF SendRaises(reply)
                   THEN /\ index' = st.index
                        /\ UNCHANGED <<uid, cpage>>
                        /\ last' = [op |-> op, cmds |-> st.cmds, added |-> st.added,
                                    sent |-> 1, raised |-> TRUE, err |-> reply.error,
                                    reply |-> reply]
                   ELSE \E s \in {AssignIds(ReplyIds(reply), st.added, 1,
                                            [uid |-> uid, cpage |-> cpage,
                                             index |-> st.index, raised |-> FALSE])} :
                        /\ uid' = s.uid
                        /\ cpage' = s.cpage
                        /\ index' = s.index
                        /\ last' = [op |-> op, cmds |-> st.cmds,
                                    added |-> st.added, sent |-> 1,
                                    raised |-> s.raised,
                                    err |-> IF s.raised THEN "IndexError" ELSE "",
                                    reply |-> reply]

\* ------------------------------------------------------------ tree shape
InTree(c) == \E p \in Nodes : c \in Range(children[p])
RECURSIVE Subtree(_, _)
Subtree(ch, n) == {n} \cup UNION {Subtree(ch, ch[n][i]) : i \in 1 .. Len(ch[n])}
\* A control in the state Control.__init__ leaves it in.
Pristine(c) ==
    /\ ~InTree(c)
    /\ children[c] = <<>> /\ prev[c] = <<>>
    /\ uid[c] = NoUid /\ ~cpage[c]
    /\ \A k \in AttrNames : ~attrs[c][k].present
\* Pristine controls of one type are interchangeable: the application takes
\* the lowest-numbered one first (taken: those it has already picked).
Usable(c, taken) ==
    /\ c \notin taken
    /\ ~InTree(c)
    /\ Pristine(c) => \A d \in 1 .. c - 1 :
           (IsContainer(d) = IsContainer(c) /\ Pristine(d)) => d \in taken
\* The usable controls numbered above c, the controls of taken being picked.
UsableAfter(c, taken) == {x \in Controls : c < x /\ Usable(x, taken)}
\* Argument lists of add/insert: one or two distinct usable controls.
ArgLists ==
    {<<c>> : c \in UsableAfter(0, {})}
    \cup UNION {{<<c, d>> : d \in UsableAfter(c, {c})} : c \in UsableAfter(0, {})}
\* Argument lists of up to three controls, for the page-list specification.
ArgLists3 ==
    ArgLists
    \cup UNION {UNION {{<<c, d, e>> : e \in UsableAfter(d, {c, d})} :
                         d \in UsableAfter(c, {c})} : c \in UsableAfter(0, {})}
\* Argument lists of remove: one or two children of the page, in list order.
RemoveLists ==
    LET cs == children[PageNode]
    IN  {<<cs[i]>> : i \in 1 .. Len(cs)}
        \cup {<<cs[q[1]], cs[q[2]]>> :
                 q \in {r \in (1 .. Len(cs)) \X (1 .. Len(cs)) : r[1] < r[2]}}
RECURSIVE InsertAll(_, _, _)
InsertAll(s, at, cs) ==
    IF cs = <<>> THEN s ELSE InsertAll(InsertAt(s, at, Head(cs)), at + 1, Tail(cs))
\* list.remove(x) for each x of cs: drops the first occurrence.
RECURSIVE RemoveValues(_, _)
RemoveValues(s, cs) ==
    IF cs = <<>> THEN s
    ELSE LET i == CHOOSE i \in 1 .. Len(s) :
                      s[i] = Head(cs) /\ \A j \in 1 .. i - 1 : s[j] # Head(cs)
         IN  RemoveValues(RemoveAt(s, i - 1), Tail(cs))

\* --------------------------------------------------------- page operations
PageAdd(cs) ==
    Update("add", [children EXCEPT ![PageNode] = @ \o cs], <<PageNode>>)

PageInsert(at, cs) ==
    Update("insert", [children EXCEPT ![PageNode] = InsertAll(@, at, cs)],
           <<PageNode>>)

PageRemove(cs) ==
    Update("remove", [children EXCEPT ![PageNode] = RemoveValues(@, cs)],
           <<PageNode>>)

PageRemoveAt(i) ==
    Update("remove_at", [children EXCEPT ![PageNode] = RemoveAt(@, i)],
           <<PageNode>>)

PageUpdate == Update("update", children, <<PageNode>>)

\* The replies the host may give to a single command.
CommandReplies ==
    {[kind |-> "ok", error |-> "", results |-> <<>>, minted |-> 0]}
    \cup {[kind |-> "error", error |-> e, results |-> <<>>, minted |-> 0] :
            e \in ErrorStrings}

PageClean ==
    \E reply \in CommandReplies :
        /\ Admissible(reply)
        /\ faults' = FaultsAfter(reply)
        /\ prev' = [prev EXCEPT ![PageNode] = <<>>]
        /\ index' = RemoveAll(children, index, children[PageNode])
        /\ children' = [children EXCEPT ![PageNode] = <<>>]
        /\ last' = [NoOp EXCEPT !.op = "clean",
                                !.cmds = <<Command(0, "clean", <<UidV(uid[PageNode])>>,
                                                   EmptyAttrs, <<>>)>>,
                                !.sent = 1,
                                !.raised = SendRaises(reply),
                                !.err = reply.error,
                                !.reply = reply]
        /\ UNCHANGED <<uid, cpage, attrs, nextId>>

\* --------------------------------------------------- operations on a node
\* The call raises err before it has done anything.
Raise(op, err) ==
    /\ last' = [NoOp EXCEPT !.op = op, !.raised = TRUE, !.err = err]
    /\ UNCHANGED <<children, prev, uid, cpage, attrs, index, nextId, faults>>

NotAdded == "Control must be added to the page first."

\* Page.update(c): __update(c) under the lock, whatever c is.
PageUpdateControl(c) == Update("update", children, <<c>>)

\* Control.update of control c.
ControlUpdate(c) ==
    IF ~cpage[c] THEN Raise("update", NotAdded) ELSE PageUpdateControl(c)

\* Page.remove(c) of a single control: list.remove raises ValueError when c
\* is not in the page's list.
PageRemoveOne(c) ==
    IF c \in Range(children[PageNode]) THEN PageRemove(<<c>>)
    ELSE Raise("remove", "ValueError")

\* A Control.clean that leaves the previous snapshot as it is.
ControlCleanKeepsSnapshot(c) ==
    IF ~cpage[c] THEN Raise("control_clean", NotAdded)
    ELSE \E reply \in CommandReplies :
        /\ Admissible(reply)
        /\ faults' = FaultsAfter(reply)
        /\ index' = RemoveAll(children, index, children[c])
        /\ last' = [NoOp EXCEPT !.op = "control_clean",
                                !.cmds = <<Command(0, "clean", <<UidV(uid[c])>>,
                                                   EmptyAttrs, <<>>)>>,
                                !.sent = 1,
                                !.raised = SendRaises(reply),
                                !.err = reply.error,
                                !.reply = reply]
        /\ UNCHANGED <<children, prev, uid, cpage, attrs, nextId>>

\* Control.clean of control c: the snapshot is emptied, the children (and
\* what is below them) leave the index, "clean" is sent with the control's
\* id; the children list itself is left as it is.
ControlClean(c) ==
    IF ~cpage[c] THEN Raise("control_clean", NotAdded)
    ELSE \E reply \in CommandReplies :
        /\ Admissible(reply)
        /\ faults' = FaultsAfter(reply)
        /\ prev' = [prev EXCEPT ![c] = <<>>]
        /\ index' = RemoveAll(children, index, children[c])
        /\ last' = [NoOp EXCEPT !.op = "control_clean",
                                !.cmds = <<Command(0, "clean", <<UidV(uid[c])>>,
                                                   EmptyAttrs, <<>>)>>,
                                !.sent = 1,
                                !.raised = SendRaises(reply),
                                !.err = reply.error,
                                !.reply = reply]
        /\ UNCHANGED <<children, uid, cpage, attrs, nextId>>

\* ------------------------------------------- application code between syncs
\* parent.controls.insert(i, c) on the live children list.
ControlsInsert(p, i, c) ==
    /\ children' = [children EXCEPT ![p] = InsertAt(@, i, c)]
    /\ last' = NoOp
    /\ UNCHANGED <<prev, uid, cpage, attrs, index, nextId, faults>>

\* parent.controls.pop(i) on the live children list.
ControlsPop(p, i) ==
    /\ children' = [children EXCEPT ![p] = RemoveAt(@, i)]
    /\ last' = NoOp
    /\ UNCHANGED <<prev, uid, cpage, attrs, index, nextId, faults>>

\* A setter that stores the value and the flag whatever the slot holds.
SetAttrAlways(a, name, value, dirty) ==
    IF ~a[name].present /\ value = PyNone THEN a
    ELSE [a EXCEPT ![name] = Slot(IF value = PyNone THEN PyStr("") ELSE value, dirty)]
\* A setter that stores None as "" in an absent slot too.
SetAttrNoneStored(a, name, value, dirty) ==
    LET v == IF value = PyNone THEN PyStr("") ELSE value
    IN  IF ~a[name].present \/ a[name].val # v
        THEN [a EXCEPT ![name] = Slot(v, dirty)]
        ELSE a

\* Control._set_attr_internal(name, value, dirty) on the store a.
SetAttrInternal(a, name, value, dirty) ==
    IF ~a[name].present /\ value = PyNone THEN a
    ELSE LET v == IF value = PyNone THEN PyStr("") ELSE value
         IN  IF ~a[name].present \/ a[name].val # v
             THEN [a EXCEPT ![name] = Slot(v, dirty)]
             ELSE a

\* A property setter of control n: Control._set_attr(name, value).
SetAttr(n, name, value) ==
    /\ attrs' = [attrs EXCEPT ![n] = SetAttrInternal(@, name, value, TRUE)]
    /\ last' = NoOp
    /\ UNCHANGED <<children, prev, uid, cpage, index, nextId, faults>>

\* ------------------------------------------------------------ Page.on_event
\* An event the host pushes: Event(target, name, data). The data of a page
\* "change" event is a list of property deltas; a delta is kept here as the
\* id it names ("i"), one attribute name and the (string) value for it.
Delta(i, name, value) == [i |-> i, name |-> name, value |-> value]
Event(target, name, data) == [target |-> target, name |-> name, data |-> data]
NoEvent == Event("", "", <<>>)
\* Control.event_handlers of node n: the names a handler is bound to. Every
\* control is constructed with a click handler, the page with none.
EventHandlers(n) == IF n = PageNode THEN {} ELSE {"click"}

\* A change branch that stores the deltas as the setters do, dirty.
RECURSIVE ApplyDeltasDirty(_, _)
ApplyDeltasDirty(a, ds) ==
    IF ds = <<>> THEN a
    ELSE LET d == Head(ds)
         IN  ApplyDeltasDirty(IF d.i \in DOMAIN index
                              THEN [a EXCEPT ![index[d.i]] =
                                       SetAttrInternal(@, d.name, PyStr(d.value), TRUE)]
                              ELSE a,
                              Tail(ds))

\* The change branch of Page.on_event: every delta whose id is in the index
\* is stored in that node with _set_attr(name, value, dirty=False).
RECURSIVE ApplyDeltas(_, _)
ApplyDeltas(a, ds) ==
    IF ds = <<>> THEN a
    ELSE LET d == Head(ds)
         IN  ApplyDeltas(IF d.i \in DOMAIN index
                         THEN [a EXCEPT ![index[d.i]] =
                                  SetAttrInternal(@, d.name, PyStr(d.value), FALSE)]
                         ELSE a,
                         Tail(ds))

\* threading.Event.set(): every thread blocked in wait() is notified.
NotifyAll(w) == [t \in DOMAIN w |-> IF w[t] = "blocked" THEN "notified" ELSE w[t]]

\* An on_event that records a control event and starts its handler but does
\* not set _event_available.
OnEventNoSignal(e) ==
    /\ IF e.target = "page" /\ e.name = "change"
       THEN /\ attrs' = ApplyDeltas(attrs, e.data)
            /\ UNCHANGED <<lastEvent, eventAvailable, started, waiters>>
       ELSE IF e.target \in DOMAIN index
       THEN /\ lastEvent' = e
            /\ started' = IF e.name \in EventHandlers(index[e.target])
                          THEN started \cup {e} ELSE started
            /\ UNCHANGED <<attrs, eventAvailable, waiters>>
       ELSE UNCHANGED <<attrs, lastEvent, eventAvailable, started, waiters>>
    /\ last' = NoOp
    /\ UNCHANGED <<children, prev, uid, cpage, index, nextId, faults>>

\* Page.on_event(e), the body under "with self._lock".
OnEvent(e) ==
    /\ IF e.target = "page" /\ e.name = "change"
       THEN /\ attrs' = ApplyDeltas(attrs, e.data)
            /\ UNCHANGED <<lastEvent, eventAvailable, started, waiters>>
       ELSE IF e.target \in DOMAIN index
       THEN /\ lastEvent' = e
            /\ started' = IF e.name \in EventHandlers(index[e.target])
                          THEN started \cup {e} ELSE started
            /\ eventAvailable' = TRUE
            /\ waiters' = NotifyAll(waiters)
            /\ UNCHANGED attrs
       ELSE UNCHANGED <<attrs, lastEvent, eventAvailable, started, waiters>>
    /\ last' = NoOp
    /\ UNCHANGED <<children, prev, uid, cpage, index, nextId, faults>>

\* ------------------------------------------------- threads and transport
\* The application's threads that call into the page.
Threads == {"t1", "t2"}
NoThread == "none"
NoCallback == [set |-> FALSE, payload |-> NoReply]
\* A thread that is in no call.
NoCall == [op |-> "none", cmds |-> <<>>, added |-> <<>>, msg |-> 0]
\* The operations of Page that run under "with self._lock".
LockedOps == {"add", "insert", "remove", "remove_at", "update", "clean"}

\* A lock that lets every thread in.
NeverBlocks(t) == TRUE

\* "with self._lock": thread t may enter when no thread holds the lock.
CanAcquire(t) == lock = NoThread

\* Connection._send_message_with_result up to evt.wait(): a fresh message
\* id, the callback registered under it, the request sent.
SendMessage(t, call, action) ==
    LET id == nextMsg + 1
    IN  /\ nextMsg' = id
        /\ callbacks' = PutKey(callbacks, id, NoCallback)
        /\ wire' = wire \cup {[id |-> id, action |-> action, cmds |-> call.cmds]}
        /\ tl' = [tl EXCEPT ![t] = [call EXCEPT !.msg = id]]

\* Thread t enters add/insert/remove/remove_at/update: takes the lock, sets
\* the children lists to ch, builds the batch and sends it; with an empty
\* batch the call returns at once.
BeginSync(t, op, ch, roots) ==
    /\ tl[t] = NoCall
    /\ CanAcquire(t)
    /\ nops < MaxOps /\ nops' = nops + 1
    /\ \E st \in {BuildEach(roots, StartBuild(ch))} :
        /\ children' = ch
        /\ prev' = st.prev
        /\ attrs' = st.attrs
        /\ index' = st.index
        /\ IF st.cmds = <<>>
           THEN /\ last' = [NoOp EXCEPT !.op = op, !.added = st.added]
                /\ UNCHANGED <<lock, callbacks, wire, tl, nextMsg>>
           ELSE /\ lock' = t
                /\ SendMessage(t, [op |-> op, cmds |-> st.cmds,
                                   added |-> st.added, msg |-> 0], "batch")
                /\ UNCHANGED last
    /\ UNCHANGED <<uid, cpage, nextId, faults, answers>>
    /\ UNCHANGED evars

\* Thread t enters Page.clean: under the lock, up to the wait for the reply.
BeginClean(t) ==
    /\ tl[t] = NoCall
    /\ CanAcquire(t)
    /\ nops < MaxOps /\ nops' = nops + 1
    /\ lock' = t
    /\ prev' = [prev EXCEPT ![PageNode] = <<>>]
    /\ index' = RemoveAll(children, index, children[PageNode])
    /\ children' = [children EXCEPT ![PageNode] = <<>>]
    /\ SendMessage(t, [op |-> "clean",
                       cmds |-> <<Command(0, "clean", <<UidV(uid[PageNode])>>,
                                          EmptyAttrs, <<>>)>>,
                       added |-> <<>>, msg |-> 0], "command")
    /\ UNCHANGED <<uid, cpage, attrs, nextId, faults, last, answers>>
    /\ UNCHANGED evars

\* Thread t enters Page.signout or Page.can_access: _send_command without
\* the lock, up to the wait for the reply.
BeginCommand(t, name) ==
    /\ tl[t] = NoCall
    /\ nops < MaxOps /\ nops' = nops + 1
    /\ SendMessage(t, [op |-> name,
                       cmds |-> <<Command(0, name, <<>>, EmptyAttrs, <<>>)>>,
                       added |-> <<>>, msg |-> 0], "command")
    /\ UNCHANGED <<children, prev, uid, cpage, attrs, index, nextId, faults,
                   last, lock, answers>>
    /\ UNCHANGED evars

\* A reply handed to the callback registered first, whatever its id.
OldestCallback(id) ==
    CHOOSE k \in DOMAIN callbacks : \A j \in DOMAIN callbacks : k <= j

\* The key of _ws_callbacks a reply with message id id is stored under.
CallbackKey(id) == id

\* The host answers request m and Connection._on_message takes the reply:
\* the payload is stored in the callback entry and its event is set.
OnMessage(m) ==
    \E reply \in (IF m.action = "batch" THEN BatchReplies(m.cmds) ELSE CommandReplies) :
        /\ Admissible(reply)
        /\ faults' = FaultsAfter(reply)
        /\ nextId' = nextId + reply.minted
        /\ wire' = wire \ {m}
        /\ answers' = PutKey(answers, m.id, reply)
        /\ callbacks' = [callbacks EXCEPT ![CallbackKey(m.id)] =
                            [set |-> TRUE, payload |-> reply]]
        /\ UNCHANGED <<children, prev, uid, cpage, attrs, index, nops, last,
                       lock, tl, nextMsg>>
        /\ UNCHANGED evars

\* A return that releases the lock only when the call does not raise.
ReturnHoldsOnRaise(t) ==
    /\ tl[t] # NoCall
    /\ callbacks[tl[t].msg].set
    /\ callbacks' = DelKey(callbacks, tl[t].msg)
    /\ tl' = [tl EXCEPT ![t] = NoCall]
    /\ \E reply \in {callbacks[tl[t].msg].payload} :
        IF SendRaises(reply) \/ tl[t].op \notin SyncOps
        THEN /\ last' = [op |-> tl[t].op, cmds |-> tl[t].cmds, added |-> tl[t].added,
                         sent |-> 1, raised |-> SendRaises(reply),
                         err |-> reply.error, reply |-> reply]
             /\ lock' = IF tl[t].op \in LockedOps /\ ~SendRaises(reply)
                        THEN NoThread ELSE lock
             /\ UNCHANGED <<uid, cpage, index>>
        ELSE \E s \in {AssignIds(ReplyIds(reply), tl[t].added, 1,
                                 [uid |-> uid, cpage |-> cpage,
                                  index |-> index, raised |-> FALSE])} :
             /\ uid' = s.uid
             /\ cpage' = s.cpage
             /\ index' = s.index
             /\ lock' = IF tl[t].op \in LockedOps /\ ~s.raised THEN NoThread ELSE lock
             /\ last' = [op |-> tl[t].op, cmds |-> tl[t].cmds, added |-> tl[t].added,
                         sent |-> 1, raised |-> s.raised,
                         err |-> IF s.raised THEN "IndexError" ELSE "",
                         reply |-> reply]
    /\ UNCHANGED <<children, prev, attrs, nextId, faults, nops, wire, answers, nextMsg>>
    /\ UNCHANGED evars

\* Thread t wakes from evt.wait(), pops its callback entry and finishes its
\* call with the payload: send_commands / send_command raise on an error,
\* Page.__update assigns the ids, the with-block releases the lock.
Return(t) ==
    /\ tl[t] # NoCall
    /\ callbacks[tl[t].msg].set
    /\ callbacks' = DelKey(callbacks, tl[t].msg)
    /\ tl' = [tl EXCEPT ![t] = NoCall]
    /\ lock' = IF tl[t].op \in LockedOps THEN NoThread ELSE lock
    /\ \E reply \in {callbacks[tl[t].msg].payload} :
        IF SendRaises(reply) \/ tl[t].op \notin SyncOps
        THEN /\ last' = [op |-> tl[t].op, cmds |-> tl[t].cmds, added |-> tl[t].added,
                         sent |-> 1, raised |-> SendRaises(reply),
                         err |-> reply.error, reply |-> reply]
             /\ UNCHANGED <<uid, cpage, index>>
        ELSE \E s \in {AssignIds(ReplyIds(reply), tl[t].added, 1,
                                 [uid |-> uid, cpage |-> cpage,
                                  index |-> index, raised |-> FALSE])} :
             /\ uid' = s.uid
             /\ cpage' = s.cpage
             /\ index' = s.index
             /\ last' = [op |-> tl[t].op, cmds |-> tl[t].cmds, added |-> tl[t].added,
                         sent |-> 1, raised |-> s.raised,
                         err |-> IF s.raised THEN "IndexError" ELSE "",
                         reply |-> reply]
    /\ UNCHANGED <<children, prev, attrs, nextId, faults, nops, wire, answers, nextMsg>>
    /\ UNCHANGED evars

\* Thread t enters Control.clean of control c: under the control's own
\* _lock (free unless another thread is inside clean of the same control),
\* up to the wait for the reply; the page's lock is not taken.
BeginControlClean(t, c) ==
    /\ tl[t] = NoCall
    /\ nops < MaxOps /\ nops' = nops + 1
    /\ IF ~cpage[c]
       THEN /\ last' = [NoOp EXCEPT !.op = "control_clean", !.raised = TRUE,
                                    !.err = NotAdded]
            /\ UNCHANGED <<prev, index, callbacks, wire, tl, nextMsg>>
       ELSE /\ \A u \in Threads :
                  ~(tl[u].op = "control_clean"
                    /\ tl[u].cmds = <<Command(0, "clean", <<UidV(uid[c])>>,
                                              EmptyAttrs, <<>>)>>)
            /\ prev' = [prev EXCEPT ![c] = <<>>]
            /\ index' = RemoveAll(children, index, children[c])
            /\ SendMessage(t, [op |-> "control_clean",
                               cmds |-> <<Command(0, "clean", <<UidV(uid[c])>>,
                                                  EmptyAttrs, <<>>)>>,
                               added |-> <<>>, msg |-> 0], "command")
            /\ UNCHANGED last
    /\ UNCHANGED <<children, uid, cpage, attrs, nextId, faults, lock, answers>>
    /\ UNCHANGED evars

\* ------------------------------------------------------- Page.wait_event
\* Thread t enters wait_event: _event_available.clear().
BeginWait(t) ==
    /\ tl[t] = NoCall /\ waiters[t] = "idle"
    /\ nops < MaxOps /\ nops' = nops + 1
    /\ eventAvailable' = FALSE
    /\ waiters' = [waiters EXCEPT ![t] = "cleared"]
    /\ UNCHANGED <<children, prev, uid, cpage, attrs, index, nextId, faults, last>>
    /\ UNCHANGED tvars
    /\ UNCHANGED <<events, closed, lastEvent, started, got, local>>

\* Thread t calls _event_available.wait(): it goes on when the event is set
\* and blocks until the next set() otherwise.
EnterWait(t) ==
    /\ waiters[t] = "cleared"
    /\ waiters' = [waiters EXCEPT ![t] = IF eventAvailable THEN "notified"
                                         ELSE "blocked"]
    /\ UNCHANGED <<children, prev, uid, cpage, attrs, index, nextId, faults, last,
                   nops>>
    /\ UNCHANGED tvars
    /\ UNCHANGED <<events, closed, lastEvent, eventAvailable, started, got, local>>

\* Thread t comes out of wait() and returns _last_event.
ReturnWait(t) ==
    /\ waiters[t] = "notified"
    /\ waiters' = [waiters EXCEPT ![t] = "idle"]
    /\ got' = [got EXCEPT ![t] = lastEvent]
    /\ UNCHANGED <<children, prev, uid, cpage, attrs, index, nextId, faults, last,
                   nops>>
    /\ UNCHANGED tvars
    /\ UNCHANGED <<events, closed, lastEvent, eventAvailable, started, local>>

\* ------------------------------------ the attribute store, step by step
\* Control._get_cmd_attrs and Control._set_attr_internal take no lock of
\* their own and the property setters call _set_attr_internal under none:
\* a thread inside Page.update and a thread inside a setter take their
\* steps on the store of the same node in any order. The node is the page,
\* the attribute its label. A thread's local variables: the value a setter
\* was given (v) or the serializer read (v), the entry the setter read
\* (orig), and the attrs of the command the serializer is filling (cattrs).
RaceNode == PageNode
NoLocal == [at |-> "idle", v |-> PyNone, orig |-> NoAttr, cattrs |-> EmptyAttrs]
RaceValues == {PyStr("x"), PyStr("y")}
MaxRaceOps == 4

\* The steps that leave the page's tree, the transport and the events alone.
StoreStep ==
    /\ UNCHANGED <<children, prev, uid, cpage, index, nextId, faults, last>>
    /\ UNCHANGED <<events, closed, lastEvent, eventAvailable, started, waiters, got>>

\* Thread t enters Page.update(): it takes the page's lock, the build begins
\* with the page's _get_cmd_attrs(update=True), which reads the dirty flag
\* of the label and goes on to the next attribute when it is not set.
BeginUpdateAttrs(t) ==
    /\ tl[t] = NoCall /\ local[t] = NoLocal
    /\ CanAcquire(t)
    /\ nops < MaxRaceOps /\ nops' = nops + 1
    /\ lock' = t
    /\ local' = [local EXCEPT ![t] =
                    [NoLocal EXCEPT !.at = IF attrs[RaceNode]["label"].present
                                               /\ attrs[RaceNode]["label"].dirty
                                            THEN "dirty" ELSE "built"]]
    /\ UNCHANGED <<attrs, callbacks, wire, answers, tl, nextMsg>>
    /\ StoreStep

\* val = self.__attrs[attrName][0]
ReadVal(t) ==
    /\ local[t].at = "dirty"
    /\ local' = [local EXCEPT ![t].at = "read", ![t].v = attrs[RaceNode]["label"].val]
    /\ UNCHANGED <<attrs, nops>> /\ UNCHANGED tvars
    /\ StoreStep

\* self.__attrs[attrName] = (val, False): the entry the serializer stores.
WriteBackSlot(cur, v) == Slot(v, FALSE)

\* command.attrs[attrName] = sval; self.__attrs[attrName] = (val, False)
WriteBack(t) ==
    /\ local[t].at = "read"
    /\ local' = [local EXCEPT ![t].at = "built",
                              ![t].cattrs = [k \in {"label"} |-> StrV(SVal(local[t].v))]]
    /\ attrs' = [attrs EXCEPT ![RaceNode]["label"] = WriteBackSlot(@, local[t].v)]
    /\ UNCHANGED nops /\ UNCHANGED tvars
    /\ StoreStep

\* The rest of the page's build_update_commands and of Page.__update: the
\* set command if the attrs are not empty, the children, the snapshot, and
\* the batch sent; with an empty batch the call returns at once.
FinishBuild(t) ==
    /\ local[t].at = "built"
    /\ local' = [local EXCEPT ![t] = NoLocal]
    /\ \E st \in {ProcessOpcodes(RaceNode,
                                 GetOpcodes(prev[RaceNode], children[RaceNode]), 0,
                                 prev[RaceNode],
                                 [StartBuild(children) EXCEPT !.cmds =
                                     IF DOMAIN local[t].cattrs # {}
                                     THEN <<Command(0, "set", <<UidV(uid[RaceNode])>>,
                                                    local[t].cattrs, <<>>)>>
                                     ELSE <<>>])} :
        /\ prev' = [st.prev EXCEPT ![RaceNode] = children[RaceNode]]
        /\ attrs' = st.attrs
        /\ index' = st.index
        /\ IF st.cmds = <<>>
           THEN /\ last' = [NoOp EXCEPT !.op = "update", !.added = st.added]
                /\ lock' = NoThread
                /\ UNCHANGED <<callbacks, wire, tl, nextMsg>>
           ELSE /\ SendMessage(t, [op |-> "update", cmds |-> st.cmds,
                                   added |-> st.added, msg |-> 0], "batch")
                /\ UNCHANGED <<lock, last>>
    /\ UNCHANGED <<children, uid, cpage, nextId, faults, nops, answers>>
    /\ UNCHANGED <<events, closed, lastEvent, eventAvailable, started, waiters, got>>

\* Thread t enters the label's setter with value v:
\* orig_val = self.__attrs.get(name)
SetterRead(t, v) ==
    /\ tl[t] = NoCall /\ local[t] = NoLocal
    /\ nops < MaxRaceOps /\ nops' = nops + 1
    /\ local' = [local EXCEPT ![t] =
                    [NoLocal EXCEPT !.at = "set", !.v = v,
                                    !.orig = attrs[RaceNode]["label"]]]
    /\ UNCHANGED attrs /\ UNCHANGED tvars
    /\ StoreStep

\* The rest of _set_attr_internal, decided on the entry that was read:
\* self.__attrs[name] = (value, dirty) unless orig_val holds the value.
SetterWrite(t) ==
    /\ local[t].at = "set"
    /\ local' = [local EXCEPT ![t] = NoLocal]
    /\ \E r \in {SetAttrInternal([attrs[RaceNode] EXCEPT !["label"] = local[t].orig],
                                 "label", local[t].v, TRUE)["label"]} :
          attrs' = IF r # local[t].orig
                   THEN [attrs EXCEPT ![RaceNode]["label"] = r]
                   ELSE attrs
    /\ UNCHANGED nops /\ UNCHANGED tvars
    /\ StoreStep

\* -------------------------------------------------------- Page.show_signin
\* The value show_signin stores in the page's signin attribute.
AuthProviders == PyStr("*")
\* Whether show_signin returns on the event wait_event gave it: the event's
\* control is the page and its lower-cased name is "signin" or
\* "dismisssignin".
SigninDone(e) == e.target = "page" /\ e.name \in {"signin", "dismissSignin"}

\* A show_signin that calls Page.update() inside its with-block: the thread
\* holds the lock and waits for it again, sending nothing.
BeginSigninReentrant(t) ==
    /\ tl[t] = NoCall /\ waiters[t] = "idle"
    /\ \A u \in Threads : local[u] = NoLocal
    /\ CanAcquire(t)
    /\ nops < MaxOps /\ nops' = nops + 1
    /\ lock' = t
    /\ attrs' = [attrs EXCEPT ![PageNode] =
                    SetAttrInternal(@, "signin", AuthProviders, TRUE)]
    /\ last' = NoOp
    /\ local' = [local EXCEPT ![t].at = "signin"]
    /\ got' = [got EXCEPT ![t] = NoEvent]
    /\ UNCHANGED <<children, prev, uid, cpage, index, nextId, faults, answers,
                   callbacks, wire, tl, nextMsg>>
    /\ UNCHANGED <<events, closed, lastEvent, eventAvailable, started, waiters>>

\* Thread t enters show_signin: under the lock it assigns the page's signin
\* attributes (kept here as the one attribute signin) and calls __update,
\* up to the wait for the reply; e is not yet assigned.
BeginSignin(t) ==
    /\ tl[t] = NoCall /\ waiters[t] = "idle"
    /\ \A u \in Threads : local[u] = NoLocal
    /\ CanAcquire(t)
    /\ nops < MaxOps /\ nops' = nops + 1
    /\ \E st \in {BuildEach(<<PageNode>>,
                    [StartBuild(children) EXCEPT !.attrs =
                        [attrs EXCEPT ![PageNode] =
                            SetAttrInternal(@, "signin", AuthProviders, TRUE)]])} :
        /\ prev' = st.prev
        /\ attrs' = st.attrs
        /\ index' = st.index
        /\ IF st.cmds = <<>>
           THEN /\ last' = [NoOp EXCEPT !.op = "update", !.added = st.added]
                /\ UNCHANGED <<lock, callbacks, wire, tl, nextMsg>>
           ELSE /\ lock' = t
                /\ SendMessage(t, [op |-> "update", cmds |-> st.cmds,
                                   added |-> st.added, msg |-> 0], "batch")
                /\ UNCHANGED last
    /\ local' = [local EXCEPT ![t].at = "signin"]
    /\ got' = [got EXCEPT ![t] = NoEvent]
    /\ UNCHANGED <<children, uid, cpage, nextId, faults, answers>>
    /\ UNCHANGED <<events, closed, lastEvent, eventAvailable, started, waiters>>

\* Thread t, inside show_signin's loop with no event to return on, calls
\* wait_event: _event_available.clear().
SigninWait(t) ==
    /\ local[t].at = "signin" /\ tl[t] = NoCall /\ waiters[t] = "idle"
    /\ ~SigninDone(got[t])
    /\ eventAvailable' = FALSE
    /\ waiters' = [waiters EXCEPT ![t] = "cleared"]
    /\ UNCHANGED <<children, prev, uid, cpage, attrs, index, nextId, faults, last,
                   nops>>
    /\ UNCHANGED tvars
    /\ UNCHANGED <<events, closed, lastEvent, started, got, local>>

\* show_signin returns: True on a signin event of the page, False on a
\* dismissSignin event (the result is kept in the thread's v).
SigninReturn(t) ==
    /\ local[t].at = "signin" /\ waiters[t] = "idle"
    /\ SigninDone(got[t])
    /\ local' = [local EXCEPT ![t].at = "returned",
                              ![t].v = PyBool(got[t].name = "signin")]
    /\ UNCHANGED <<children, prev, uid, cpage, attrs, index, nextId, faults, last,
                   nops>>
    /\ UNCHANGED tvars
    /\ UNCHANGED <<events, closed, lastEvent, eventAvailable, started, waiters, got>>

\* ------------------------- Connection._send_message_with_result, in steps
\* A send that hands the message to the socket before it registers the
\* callback.
SendBeforeRegister == <<"send", "register">>
\* The two statements of _send_message_with_result between the making of
\* the message and evt.wait(), in the order of the code:
\* self._ws_callbacks[msg_id] = (evt, None), then self._ws.send(j).
SendSteps == <<"register", "send">>

\* Thread t enters _send_message_with_result for a command sent without the
\* page's lock (Page.signout): the message gets a fresh id.
BeginSend(t) ==
    /\ tl[t] = NoCall /\ local[t] = NoLocal
    /\ nops < MaxOps /\ nops' = nops + 1
    /\ nextMsg' = nextMsg + 1
    /\ tl' = [tl EXCEPT ![t] =
                 [op |-> "signout",
                  cmds |-> <<Command(0, "signout", <<>>, EmptyAttrs, <<>>)>>,
                  added |-> <<>>, msg |-> nextMsg + 1]]
    /\ local' = [local EXCEPT ![t].at = "send1"]
    /\ UNCHANGED <<children, prev, uid, cpage, attrs, index, nextId, faults, last,
                   lock, callbacks, wire, answers>>
    /\ UNCHANGED <<events, closed, lastEvent, eventAvailable, started, waiters, got>>

\* Thread t takes its next statement: it registers the callback entry, or
\* hands the message to the socket; after the second it is in evt.wait().
SendStep(t) ==
    /\ local[t].at \in {"send1", "send2"}
    /\ \E k \in {IF local[t].at = "send1" THEN 1 ELSE 2} :
        /\ IF SendSteps[k] = "register"
           THEN /\ callbacks' = PutKey(callbacks, tl[t].msg, NoCallback)
                /\ UNCHANGED wire
           ELSE /\ wire' = wire \cup {[id |-> tl[t].msg, action |-> "command",
                                       cmds |-> tl[t].cmds]}
                /\ UNCHANGED callbacks
        /\ local' = [local EXCEPT ![t].at = IF k = 1 THEN "send2" ELSE "idle"]
    /\ UNCHANGED <<children, prev, uid, cpage, attrs, index, nextId, faults, last,
                   nops, lock, answers, tl, nextMsg>>
    /\ UNCHANGED <<events, closed, lastEvent, eventAvailable, started, waiters, got>>

\* ------------------------------------------- pushed messages and the socket
\* A message the host pushes (empty message id).
Push(action, e) == [action |-> action, e |-> e]
\* A receive path that calls the handler itself.
InlineAlways(m) == TRUE
\* Whether _on_message calls the handler of a pushed message itself: it
\* starts a thread for it.
Inline(m) == FALSE

\* The handler registered for a pushed message runs: for a page event
\* Page.on_event, which takes the page's lock for its body; for a created
\* session the application's session function, which touches nothing here.
Handle(m) ==
    IF m.action = "pageEventToHost"
    THEN lock = NoThread /\ OnEvent(m.e)
    ELSE UNCHANGED <<children, prev, uid, cpage, attrs, index, nextId, faults,
                     last, lastEvent, eventAvailable, started, waiters>>

\* Connection._on_message takes a pushed message: the handler is started on
\* a thread of its own.
OnPush(m) ==
    /\ nops < MaxOps /\ nops' = nops + 1
    /\ IF Inline(m)
       THEN Handle(m) /\ UNCHANGED events
       ELSE /\ events' = events \cup {m}
            /\ UNCHANGED <<children, prev, uid, cpage, attrs, index, nextId,
                           faults, last, lastEvent, eventAvailable, started,
                           waiters>>
    /\ UNCHANGED tvars /\ UNCHANGED <<closed, got, local>>

\* A started handler thread runs its handler.
RunHandler(m) ==
    /\ m \in events
    /\ events' = events \ {m}
    /\ Handle(m)
    /\ UNCHANGED tvars /\ UNCHANGED <<nops, closed, got, local>>

\* A close that completes every pending call with an error.
FailPendingCalls(cb) ==
    [id \in DOMAIN cb |->
        [set |-> TRUE,
         payload |-> [kind |-> "error", error |-> "closed", results |-> <<>>,
                      minted |-> 0]]]
\* What closing the socket does to _ws_callbacks: nothing.
CallbacksAfterClose(cb) == cb

\* Connection.close(): self._ws.close().
ConnectionClose ==
    /\ nops < MaxOps /\ nops' = nops + 1
    /\ closed' = TRUE
    /\ callbacks' = CallbacksAfterClose(callbacks)
    /\ UNCHANGED <<children, prev, uid, cpage, attrs, index, nextId, faults, last,
                   lock, wire, answers, tl, nextMsg,
                   events, lastEvent, eventAvailable, started, waiters, got, local>>

\* Page.close(): closes the connection when the page's session is the zero
\* session, and does nothing otherwise.
PageClose(zeroSession) ==
    IF zeroSession THEN ConnectionClose
    ELSE /\ nops < MaxOps /\ nops' = nops + 1
         /\ UNCHANGED <<children, prev, uid, cpage, attrs, index, nextId, faults,
                        last>>
         /\ UNCHANGED tvars /\ UNCHANGED evars

\* ---------------------------------------------------------- specification
\* Page.__init__: Control.__init__(id="page") stores the id attribute dirty
\* and gives the page the uid "page"; the index holds the page alone. The
\* controls are constructed and detached; Callout.__init__(controls=...)
\* fills the children of a container.
InitChildren ==
    {[n \in Nodes |-> <<>>], [n \in Nodes |-> IF n = 1 THEN <<2>> ELSE <<>>]}

Construct(ch, f) ==
    /\ children = ch
    /\ prev = [n \in Nodes |-> <<>>]
    /\ uid = [n \in Nodes |-> IF n = PageNode THEN PageUid ELSE NoUid]
    /\ cpage = [n \in Nodes |-> FALSE]
    /\ attrs = [n \in Nodes |-> [k \in AttrNames |->
                  IF n = PageNode /\ k = "id" THEN Slot(PyStr("page"), TRUE)
                  ELSE NoAttr]]
    /\ index = [k \in {PageUid} |-> PageNode]
    /\ nextId = 0
    /\ faults = f
    /\ nops = 0
    /\ last = NoOp
    /\ lock = NoThread
    /\ callbacks = [k \in {} |-> NoCallback]
    /\ wire = {}
    /\ answers = [k \in {} |-> NoReply]
    /\ tl = [t \in Threads |-> NoCall]
    /\ nextMsg = 0
    /\ events = {}
    /\ closed = FALSE
    /\ lastEvent = NoEvent
    /\ eventAvailable = FALSE
    /\ started = {}
    /\ waiters = [t \in Threads |-> "idle"]
    /\ got = [t \in Threads |-> NoEvent]
    /\ local = [t \in Threads |-> NoLocal]

Init == \E ch \in InitChildren : Construct(ch, 0)

\* The nodes and values the application's setters are exercised on.
AttrNodes == {PageNode, 1}
AttrValues == {PyStr("x")}

\* One more operation of the application, within the bound.
\* One operation of a single-threaded application: the caller blocks in
\* _send_message_with_result until the reply is in, so the send, the reply
\* and the return are one step and leave the transport as it was.
Step(A) ==
    nops < MaxOps /\ nops' = nops + 1 /\ A /\ UNCHANGED tvars /\ UNCHANGED evars

Next ==
    \/ \E cs \in ArgLists : Step(PageAdd(cs))
    \/ \E cs \in RemoveLists : Step(PageRemove(cs))
    \/ Step(PageUpdate)
    \/ Step(PageClean)
    \/ \E p \in Controls, c \in Controls : \E i \in 0 .. Len(children[p]) :
           /\ IsContainer(p)
           /\ Usable(c, {})
           /\ p \notin Subtree(children, c)
           /\ Step(ControlsInsert(p, i, c))
    \/ \E p \in Controls : \E i \in 0 .. Len(children[p]) - 1 :
           Step(ControlsPop(p, i))
    \/ \E n \in AttrNodes, v \in AttrValues : Step(SetAttr(n, "label", v))

Spec == Init /\ [][Next]_vars

\* The reconciliation of the page's own list: the application edits
\* page.controls and synchronizes; the host answers every batch well-formed.
InitDiff == Construct([n \in Nodes |-> <<>>], MaxFaults)

StepDiff(A) ==
    nops < MaxDiffOps /\ nops' = nops + 1 /\ A /\ UNCHANGED tvars /\ UNCHANGED evars

NextDiff ==
    \/ \E cs \in ArgLists3 : StepDiff(PageAdd(cs))
    \/ \E c \in Controls : \E at \in 0 .. Len(children[PageNode]) - 1 :
           Usable(c, {}) /\ StepDiff(PageInsert(at, <<c>>))
    \/ \E i \in 0 .. Len(children[PageNode]) - 1 : StepDiff(PageRemoveAt(i))
    \/ StepDiff(PageUpdate)
    \/ \E c \in Controls : \E i \in 0 .. Len(children[PageNode]) :
           Usable(c, {}) /\ StepDiff(ControlsInsert(PageNode, i, c))
    \/ \E i \in 0 .. Len(children[PageNode]) - 1 :
           StepDiff(ControlsPop(PageNode, i))

SpecDiff == InitDiff /\ [][NextDiff]_vars

\* Controls that leave the page and come back: the application adds and
\* removes top-level controls, pops controls from the callout, cleans the
\* page and synchronizes; the host may answer one batch badly.
MaxReaddOps == 4
InitReadd == \E ch \in InitChildren : Construct(ch, 0)

StepReadd(A) ==
    nops < MaxReaddOps /\ nops' = nops + 1 /\ A /\ UNCHANGED tvars /\ UNCHANGED evars

NextReadd ==
    \/ \E c \in Controls : Usable(c, {}) /\ StepReadd(PageAdd(<<c>>))
    \/ \E c \in Range(children[PageNode]) : StepReadd(PageRemove(<<c>>))
    \/ StepReadd(PageClean)
    \/ StepReadd(PageUpdate)
    \/ \E i \in 0 .. Len(children[1]) - 1 : StepReadd(ControlsPop(1, i))

SpecReadd == InitReadd /\ [][NextReadd]_vars

\* Operations addressed to single controls, attached to the page or not:
\* the application adds controls, assigns labels, and calls update, clean
\* and remove for a control; the host answers every request well-formed.
InitNode == \E ch \in InitChildren : Construct(ch, MaxFaults)

NextNode ==
    \/ \E c \in Controls : Usable(c, {}) /\ Step(PageAdd(<<c>>))
    \/ \E c \in Controls : Step(PageUpdateControl(c))
    \/ \E c \in Controls : Step(ControlUpdate(c))
    \/ \E c \in Controls : Step(ControlClean(c))
    \/ \E c \in Controls : Step(PageRemoveOne(c))
    \/ \E c \in AttrNodes \ {PageNode}, v \in AttrValues : Step(SetAttr(c, "label", v))

SpecNode == InitNode /\ [][NextNode]_vars

\* The attribute stores: the application constructs two controls, assigns
\* their label and the page's, adds and removes them and synchronizes, while
\* the host pushes "change" events; the host answers every batch well-formed.
InitAttrs == Construct([n \in Nodes |-> <<>>], MaxFaults)
\* The controls, the assigned values and the pushed events of these runs.
AttrControls == {1, 2}
SetterNodes == {PageNode, 2}
SetterValues == {PyNone, PyStr("x"), PyStr("y")}
\* The control the application gives an id of its own, and that id.
IdControls == {1}
UserId == PyStr("me")
ChangeEvents ==
    {Event("page", "change", <<Delta(i, "label", "y")>>) :
        i \in {PageUid, HostId(1), HostId(2)}}

StepAttrs(A) ==
    nops < MaxAttrOps /\ nops' = nops + 1 /\ A /\ UNCHANGED tvars /\ UNCHANGED evars
\* An event is routed while the application is in no call: Page.on_event
\* finds the lock free.
RouteEvent(e) ==
    /\ nops < MaxAttrOps /\ nops' = nops + 1
    /\ OnEvent(e)
    /\ UNCHANGED tvars /\ UNCHANGED <<events, closed, got, local>>

NextAttrs ==
    \/ \E c \in AttrControls : ~InTree(c) /\ StepAttrs(PageAdd(<<c>>))
    \/ \E c \in Range(children[PageNode]) : StepAttrs(PageRemove(<<c>>))
    \/ StepAttrs(PageUpdate)
    \/ StepAttrs(PageClean)
    \/ \E n \in SetterNodes, v \in SetterValues : StepAttrs(SetAttr(n, "label", v))
    \/ \E c \in IdControls : StepAttrs(SetAttr(c, "id", UserId))
    \/ \E e \in ChangeEvents : RouteEvent(e)

SpecAttrs == InitAttrs /\ [][NextAttrs]_vars

\* Two threads of the application call into one page while the connection's
\* reader thread delivers the host's replies.
InitThreads == Construct([n \in Nodes |-> <<>>], 0)

NextThreads ==
    \/ \E t \in Threads : \E c \in Controls :
           /\ Usable(c, {})
           /\ BeginSync(t, "add", [children EXCEPT ![PageNode] = Append(@, c)],
                        <<PageNode>>)
    \/ \E t \in Threads : \E c \in Controls :
           /\ Usable(c, {})
           /\ BeginSync(t, "insert", [children EXCEPT ![PageNode] = InsertAt(@, 0, c)],
                        <<PageNode>>)
    \/ \E t \in Threads : \E cs \in RemoveLists :
           /\ Len(cs) = 1
           /\ BeginSync(t, "remove", [children EXCEPT ![PageNode] = RemoveValues(@, cs)],
                        <<PageNode>>)
    \/ \E t \in Threads :
           /\ children[PageNode] # <<>>
           /\ BeginSync(t, "remove_at", [children EXCEPT ![PageNode] = RemoveAt(@, 0)],
                        <<PageNode>>)
    \/ \E t \in Threads : BeginSync(t, "update", children, <<PageNode>>)
    \/ \E t \in Threads : BeginClean(t)
    \/ \E t \in Threads : BeginCommand(t, "signout")
    \/ \E t \in Threads : BeginCommand(t, "canAccess")
    \/ \E m \in wire : OnMessage(m)
    \/ \E t \in Threads : Return(t)

SpecThreads == InitThreads /\ [][NextThreads]_vars

\* Two threads clean and synchronize: Control.clean of a control runs while
\* other threads add to the page and update it; the host answers every
\* request well-formed.
InitClean == \E ch \in InitChildren : Construct(ch, MaxFaults)

NextClean ==
    \/ \E t \in Threads : \E c \in Controls :
           /\ Usable(c, {})
           /\ BeginSync(t, "add", [children EXCEPT ![PageNode] = Append(@, c)],
                        <<PageNode>>)
    \/ \E t \in Threads : BeginSync(t, "update", children, <<PageNode>>)
    \/ \E t \in Threads : BeginClean(t)
    \/ \E t \in Threads : \E c \in Controls : BeginControlClean(t, c)
    \/ \E m \in wire : OnMessage(m)
    \/ \E t \in Threads : Return(t)

SpecClean == InitClean /\ [][NextClean]_vars

\* The host pushes events and the application closes the connection while
\* threads are inside calls; the application starts no call on a closed
\* connection.
InitPush == Construct([n \in Nodes |-> <<>>], MaxFaults)
PushedMessages ==
    {Push("pageEventToHost", Event("page", "change", <<Delta(PageUid, "label", "y")>>)),
     Push("pageEventToHost", Event(HostId(1), "click", <<>>)),
     Push("sessionCreated", NoEvent)}

NextPush ==
    \/ \E t \in Threads : \E c \in Controls :
           /\ ~closed
           /\ Usable(c, {})
           /\ BeginSync(t, "add", [children EXCEPT ![PageNode] = Append(@, c)],
                        <<PageNode>>)
    \/ \E t \in Threads : ~closed /\ BeginSync(t, "update", children, <<PageNode>>)
    \/ \E t \in Threads : ~closed /\ BeginCommand(t, "signout")
    \/ \E m \in wire : OnMessage(m)
    \/ \E t \in Threads : Return(t)
    \/ \E m \in PushedMessages : ~closed /\ OnPush(m)
    \/ \E m \in events : RunHandler(m)
    \/ ~closed /\ ConnectionClose
    \/ \E z \in BOOLEAN : ~closed /\ PageClose(z)

SpecPush == InitPush /\ [][NextPush]_vars

\* The threads that are not inside wait_event.
Idle == {t \in Threads : waiters[t] = "idle"}

\* Events and their waiters: threads add and remove controls, the
\* application takes children out of a container, threads wait for events,
\* and the host pushes control and page events; the host answers every
\* request well-formed.
InitEvents == \E ch \in InitChildren : Construct(ch, MaxFaults)
EventMessages ==
    {Push("pageEventToHost", Event(i, "click", <<>>)) : i \in {HostId(1), HostId(2)}}
    \cup {Push("pageEventToHost", Event("page", "signin", <<>>))}

NextEvents ==
    \/ \E t \in Idle : \E c \in Controls :
           /\ Usable(c, {})
           /\ BeginSync(t, "add", [children EXCEPT ![PageNode] = Append(@, c)],
                        <<PageNode>>)
    \/ \E t \in Idle : \E cs \in RemoveLists :
           /\ Len(cs) = 1
           /\ BeginSync(t, "remove", [children EXCEPT ![PageNode] = RemoveValues(@, cs)],
                        <<PageNode>>)
    \/ \E t \in Idle : BeginSync(t, "update", children, <<PageNode>>)
    \/ \E p \in Controls : \E i \in 0 .. Len(children[p]) - 1 :
           /\ ControlsPop(p, i)
           /\ UNCHANGED nops /\ UNCHANGED tvars /\ UNCHANGED evars
    \/ \E m \in wire : OnMessage(m)
    \/ \E t \in Threads : Return(t)
    \/ \E m \in EventMessages : OnPush(m)
    \/ \E m \in events : RunHandler(m)
    \/ \E t \in Threads : BeginWait(t)
    \/ \E t \in Threads : EnterWait(t)
    \/ \E t \in Threads : ReturnWait(t)

SpecEvents == InitEvents /\ [][NextEvents]_vars

\* The same runs with the threads scheduled: the connection's reader thread
\* takes every message that has arrived, a caller whose reply is in returns,
\* and a started handler thread runs once the page's lock is free.
LiveEvents ==
    /\ SpecEvents
    /\ WF_vars(\E m \in wire : OnMessage(m))
    /\ \A t \in Threads : WF_vars(Return(t))
    /\ \A m \in EventMessages : WF_vars(RunHandler(m))
\* The sign-in dialog: one thread calls show_signin once, the host answers
\* its update well-formed and pushes, while the dialog is showing, the
\* page's signin and dismissSignin events and clicks of a control.
SigninMessages ==
    {Push("pageEventToHost", Event("page", n, <<>>)) : n \in {"signin", "dismissSignin"}}

NextSignin ==
    \/ \E t \in Threads : BeginSignin(t)
    \/ \E m \in wire : OnMessage(m)
    \/ \E t \in Threads : Return(t)
    \/ \E m \in SigninMessages :
           (\E t \in Threads : local[t].at = "signin") /\ OnPush(m)
    \/ \E m \in events : RunHandler(m)
    \/ \E t \in Threads : SigninWait(t)
    \/ \E t \in Threads : EnterWait(t)
    \/ \E t \in Threads : ReturnWait(t)
    \/ \E t \in Threads : SigninReturn(t)

SpecSignin == InitEvents /\ [][NextSignin]_vars

\* The same runs with the threads scheduled: the reader thread takes every
\* message, a caller whose reply is in returns, a started handler thread
\* runs once the lock is free, and the caller of show_signin takes every
\* step of its loop that it can take.
LiveSignin ==
    /\ SpecSignin
    /\ WF_vars(\E m \in wire : OnMessage(m))
    /\ \A t \in Threads : WF_vars(Return(t))
    /\ \A m \in SigninMessages : WF_vars(RunHandler(m))
    /\ \A t \in Threads :
         WF_vars(SigninWait(t) \/ EnterWait(t) \/ ReturnWait(t) \/ SigninReturn(t))

\* Change events in order: the host pushes a change of the page's label to
\* "y" once, and changes of it to "z" only after that one was received,
\* while threads add controls; the host answers every batch well-formed.
ChangeTo(v) ==
    Push("pageEventToHost", Event("page", "change", <<Delta(PageUid, "label", v)>>))
Received(m) == m \in events \/ attrs[PageNode]["label"].present

NextOrder ==
    \/ \E t \in Threads : \E c \in Controls :
           /\ Usable(c, {})
           /\ BeginSync(t, "add", [children EXCEPT ![PageNode] = Append(@, c)],
                        <<PageNode>>)
    \/ \E m \in wire : OnMessage(m)
    \/ \E t \in Threads : Return(t)
    \/ ~Received(ChangeTo("y")) /\ OnPush(ChangeTo("y"))
    \/ Received(ChangeTo("y")) /\ OnPush(ChangeTo("z"))
    \/ \E m \in events : RunHandler(m)

SpecOrder == InitPush /\ [][NextOrder]_vars

\* Calls that fail: two threads add to the page, update and clean it while
\* the host answers with well-formed replies, with errors and with replies
\* of too many or too few ids, and pushes events.
FaultyMessages ==
    {Push("pageEventToHost", Event(HostId(1), "click", <<>>)),
     Push("pageEventToHost", Event("page", "change", <<Delta(PageUid, "label", "y")>>))}

NextFaulty ==
    \/ \E t \in Threads : \E c \in Controls :
           /\ Usable(c, {})
           /\ BeginSync(t, "add", [children EXCEPT ![PageNode] = Append(@, c)],
                        <<PageNode>>)
    \/ \E t \in Threads : BeginSync(t, "update", children, <<PageNode>>)
    \/ \E t \in Threads : BeginClean(t)
    \/ \E m \in wire : OnMessage(m)
    \/ \E t \in Threads : Return(t)
    \/ \E m \in FaultyMessages : OnPush(m)
    \/ \E m \in events : RunHandler(m)

SpecFaulty == InitThreads /\ [][NextFaulty]_vars

\* Every way into the page's lock: threads call Page.add (of the callout),
\* insert (of a checkbox), remove, remove_at, clean and show_signin, a
\* thread started for the handler of a control event assigns the control's
\* label and calls Page.update, the host answers every request well-formed
\* and pushes events of the page and of a control.
LockMessages ==
    {Push("pageEventToHost", Event(HostId(1), "click", <<>>)),
     Push("pageEventToHost", Event("page", "signin", <<>>))}

NextLock ==
    \/ \E t \in Idle : \E c \in {1} :
           /\ Usable(c, {})
           /\ BeginSync(t, "add", [children EXCEPT ![PageNode] = Append(@, c)],
                        <<PageNode>>)
    \/ \E t \in Idle : \E c \in {2} :
           /\ Usable(c, {})
           /\ BeginSync(t, "insert", [children EXCEPT ![PageNode] = InsertAt(@, 0, c)],
                        <<PageNode>>)
    \/ \E t \in Idle : \E cs \in RemoveLists :
           /\ Len(cs) = 1
           /\ BeginSync(t, "remove", [children EXCEPT ![PageNode] = RemoveValues(@, cs)],
                        <<PageNode>>)
    \/ \E t \in Idle :
           /\ children[PageNode] # <<>>
           /\ BeginSync(t, "remove_at", [children EXCEPT ![PageNode] = RemoveAt(@, 0)],
                        <<PageNode>>)
    \/ \E e \in started :
           /\ e.target \in DOMAIN index
           /\ SetAttr(index[e.target], "label", PyStr("x"))
           /\ UNCHANGED nops /\ UNCHANGED tvars /\ UNCHANGED evars
    \/ \E t \in Idle : started # {} /\ BeginSync(t, "update", children, <<PageNode>>)
    \/ \E t \in Idle : BeginClean(t)
    \/ \E t \in Idle : BeginSignin(t)
    \/ \E m \in wire : OnMessage(m)
    \/ \E t \in Threads : Return(t)
    \/ \E m \in LockMessages : OnPush(m)
    \/ \E m \in events : RunHandler(m)
    \/ \E t \in Threads : SigninWait(t)
    \/ \E t \in Threads : EnterWait(t)
    \/ \E t \in Threads : ReturnWait(t)
    \/ \E t \in Threads : SigninReturn(t)

SpecLock == InitPush /\ [][NextLock]_vars

\* The same runs with the host answering and the threads scheduled: the
\* reader thread takes the reply to every request, a caller whose reply is
\* in returns, and a started handler thread runs once the lock is free.
LiveLock ==
    /\ SpecLock
    /\ WF_vars(\E m \in wire : OnMessage(m))
    /\ \A t \in Threads : WF_vars(Return(t))
    /\ \A m \in LockMessages : WF_vars(RunHandler(m))

\* Requests statement by statement: two threads send commands while the
\* reader thread takes the host's replies; a thread is in evt.wait() once
\* both statements are done.
NextSend ==
    \/ \E t \in Threads : BeginSend(t)
    \/ \E t \in Threads : SendStep(t)
    \/ \E m \in wire : OnMessage(m)
    \/ \E t \in Threads : local[t].at = "idle" /\ Return(t)

SpecSend == InitThreads /\ [][NextSend]_vars

\* A container that is cleaned: the callout is constructed with two
\* children; the application adds controls to the page, pops children of
\* the callout, cleans controls and synchronizes the page or one control;
\* the host answers every request well-formed.
InitRefill ==
    Construct([n \in Nodes |-> IF n = 1 THEN <<2, 3>> ELSE <<>>], MaxFaults)

NextRefill ==
    \/ \E c \in Controls : Usable(c, {}) /\ Step(PageAdd(<<c>>))
    \/ \E c \in Controls : Step(ControlClean(c))
    \/ Step(PageUpdate)
    \/ \E c \in Controls : Step(PageUpdateControl(c))
    \/ \E i \in 0 .. Len(children[1]) - 1 : Step(ControlsPop(1, i))

SpecRefill == InitRefill /\ [][NextRefill]_vars

\* A setter against a running Page.update(): one thread at a time assigns
\* the page's label while another synchronizes the page; the host answers
\* every batch well-formed.
InitRace == Construct([n \in Nodes |-> <<>>], MaxFaults)

NextRace ==
    \/ \E t \in Threads : BeginUpdateAttrs(t)
    \/ \E t \in Threads : ReadVal(t)
    \/ \E t \in Threads : WriteBack(t)
    \/ \E t \in Threads : FinishBuild(t)
    \/ \E t \in Threads, v \in RaceValues :
           (\A u \in Threads : local[u].at # "set") /\ SetterRead(t, v)
    \/ \E t \in Threads : SetterWrite(t)
    \/ \E m \in wire : OnMessage(m)
    \/ \E t \in Threads : Return(t)

SpecRace == InitRace /\ [][NextRace]_vars
\* The step is a call of Page.add/insert/remove/remove_at/update.
SyncStep == nops' = nops + 1 /\ last'.op \in SyncOps
\* Node p was reconciled by the step (diffed by build_update_commands, not
\* serialized as new): it is in the page's tree and was not sent as new.
Reconciled(p) ==
    /\ p \in Subtree(children', PageNode)
    /\ p \notin Range(last'.added)
CommandsNamed(cmds, name) == SelectSeq(cmds, LAMBDA c : c.name = name)
\* The "add" commands of a batch that address parent p.
AddsTo(cmds, p) ==
    SelectSeq(cmds, LAMBDA c : c.name = "add" /\ c.attrs.to = UidV(uid[p]))
\* The "remove" commands of a batch that carry the id of control c.
RemovesOf(cmds, c) ==
    SelectSeq(cmds, LAMBDA r : r.name = "remove" /\ UidV(uid[c]) \in Range(r.values))
\* The definition command of control c as the first line of an "add".
Defines(cmd, c) ==
    /\ cmd.commands # <<>>
    /\ cmd.commands[1].indent = 0
    /\ cmd.commands[1].values = <<StrV(ControlName(c))>>

\* C1: when a reconciled parent's previous children are [A, B, C] and its
\* current children are [A, C, D] (four different nodes), the batch holds exactly one remove command
\* for B, carrying B's id alone, and exactly one add command to the parent,
\* at position 2 and defining D; A and C are not sent as new and keep their
\* ids; B, which is in no equal run, is not recursed into. In general the
\* nodes of an equal run are recursed into and never sent as new.
C1_Holds(p) ==
    LET A == prev[p][1]
        B == prev[p][2]
        C == prev[p][3]
        D == children'[p][3]
    IN  (children'[p][1] = A /\ children'[p][2] = C /\ D \notin {A, B, C})
        => /\ Len(RemovesOf(last'.cmds, B)) = 1
           /\ RemovesOf(last'.cmds, B)[1].values = <<UidV(uid[B])>>
           /\ RemovesOf(last'.cmds, A) = <<>>
           /\ RemovesOf(last'.cmds, C) = <<>>
           /\ Len(AddsTo(last'.cmds, p)) = 1
           /\ AddsTo(last'.cmds, p)[1].attrs.at = StrV("2")
           /\ Defines(AddsTo(last'.cmds, p)[1], D)
           /\ D \in Range(last'.added)
           /\ A \notin Range(last'.added) /\ C \notin Range(last'.added)
           /\ uid'[A] = uid[A] /\ uid'[C] = uid[C]
           /\ prev'[A] = children'[A] /\ prev'[C] = children'[C]
           /\ prev'[B] = prev[B] /\ attrs'[B] = attrs[B]
\* The nodes of the equal runs of parent p are not sent as new, keep their
\* ids and are recursed into.
C1_EqualRuns(p) ==
    \A n \in UNION {Range(Slice(prev[p], o.a1, o.a2)) :
                      o \in {x \in Range(GetOpcodes(prev[p], children'[p])) :
                                x.tag = "equal"}} :
        /\ n \notin Range(last'.added)
        /\ uid'[n] = uid[n]
        /\ prev'[n] = children'[n]
C1_EditScript ==
    [][\A p \in Nodes :
          (SyncStep /\ Reconciled(p))
          => /\ C1_EqualRuns(p)
             /\ (Len(prev[p]) = 3 /\ Len(children'[p]) = 3) => C1_Holds(p)]_vars
\* The page went from [1, 2, 3] to [1, 3, 4] in one update.
C1_Witness ==
    /\ last.op = "update"
    /\ children[PageNode] = <<1, 3, 4>>
    /\ prev[PageNode] = <<1, 3, 4>>
    /\ last.added = <<4>>
    /\ Len(last.cmds) = 2
    /\ last.cmds[1] = RemoveCommand(<<UidV(uid[2])>>)
    /\ last.cmds[2].name = "add" /\ last.cmds[2].attrs.at = StrV("2")
    /\ uid[2] # NoUid /\ uid[2] \notin DOMAIN index
    /\ uid[4] \in DOMAIN index

\* C2: a Page.update() that directly follows a completed synchronization of
\* the page (no mutation in between) builds an empty batch, sends nothing and
\* leaves the index, the ids and the previous snapshots unchanged.
C2_Idempotent ==
    [][(/\ last.op \in SyncOps /\ ~last.raised
        /\ nops' = nops + 1 /\ last'.op = "update")
       => /\ last'.cmds = <<>>
          /\ last'.sent = 0
          /\ last'.added = <<>>
          /\ index' = index /\ uid' = uid /\ prev' = prev]_vars
\* An add that assigned ids, then an update that sent nothing.
C2_Witness ==
    /\ nops = 2
    /\ last.op = "update" /\ last.cmds = <<>> /\ last.sent = 0
    /\ \E c \in Controls : c \in Range(children[PageNode]) /\ uid[c] \in DOMAIN index

\* The step is a synchronization that sent new nodes and was answered by a
\* well-formed reply.
AddedStep == SyncStep /\ last'.added # <<>> /\ last'.reply.kind = "ok"
\* The i-th id of the reply went to the i-th added node, which records the
\* page and is indexed under that id; the reply holds one id per added node.
IdsAssigned ==
    /\ Len(ReplyIds(last'.reply)) = Len(last'.added)
    /\ \A i \in 1 .. Len(last'.added) :
          LET n == last'.added[i]
              id == ReplyIds(last'.reply)[i]
          IN  /\ uid'[n] = id
              /\ cpage'[n]
              /\ id \in DOMAIN index' /\ index'[id] = n
              /\ id \notin DOMAIN index

\* C3 as stated: after a synchronization that introduces k new nodes, the k
\* ids of the reply are assigned in pre-order, each node records the page, and
\* the index holds exactly the k new entries plus all entries it held before.
C3_Original ==
    [][AddedStep
       => /\ IdsAssigned
          /\ DOMAIN index' = DOMAIN index \cup Range(ReplyIds(last'.reply))
          /\ \A key \in DOMAIN index : index'[key] = index[key]]_vars
\* C3 amended: as above, but of the entries the index held before it keeps
\* those of the nodes that stay in the tree and were not sent as new, and may
\* drop others (ids of removed nodes, old ids of nodes sent as new again).
C3_Amended ==
    [][AddedStep
       => /\ IdsAssigned
          /\ DOMAIN index' \subseteq DOMAIN index \cup Range(ReplyIds(last'.reply))
          /\ \A key \in DOMAIN index \cap DOMAIN index' : index'[key] = index[key]
          /\ \A key \in DOMAIN index :
                (/\ index[key] \in Subtree(children', PageNode)
                 /\ index[key] \notin Range(last'.added))
                => key \in DOMAIN index']_vars
\* Three new nodes, one of them nested, received the three ids of the reply.
C3_Witness ==
    /\ last.op = "add" /\ last.reply.kind = "ok"
    /\ last.added = <<1, 2, 3>>
    /\ children[1] = <<2>>
    /\ ReplyIds(last.reply) = <<uid[1], uid[2], uid[3]>>
    /\ \A n \in {1, 2, 3} : cpage[n] /\ uid[n] \in DOMAIN index /\ index[uid[n]] = n
    /\ DOMAIN index = {PageUid, uid[1], uid[2], uid[3]}

\* The nodes under c in the snapshots of the last synchronization.
RECURSIVE PrevSubtree(_)
PrevSubtree(c) == {c} \cup UNION {PrevSubtree(prev[c][i]) : i \in 1 .. Len(prev[c])}
\* C4: when a reconciled parent's previous children are [A, B] and its current
\* children are [], the batch holds exactly one remove command, listing the
\* ids of A and B in that order, and no add command to the parent; afterwards
\* the index holds no entry for A, for B or for a node that was synchronized
\* under A or B (and is not in the tree any more).
C4_Claim ==
    [][\A p \in Nodes :
          (SyncStep /\ Reconciled(p) /\ Len(prev[p]) = 2 /\ children'[p] = <<>>)
          => LET A == prev[p][1]
                 B == prev[p][2]
             IN  /\ RemovesOf(last'.cmds, A)
                        = <<RemoveCommand(<<UidV(uid[A]), UidV(uid[B])>>)>>
                 /\ RemovesOf(last'.cmds, B) = RemovesOf(last'.cmds, A)
                 /\ AddsTo(last'.cmds, p) = <<>>
                 /\ \A x \in PrevSubtree(A) \cup PrevSubtree(B) :
                       x \notin Subtree(children', PageNode)
                       => \A key \in DOMAIN index' : index'[key] # x]_vars

\* C5: when a reconciled parent's previous children are [] and its current
\* children are not, the batch holds one add command to the parent per current
\* child, in list order, the i-th (from 0) at position i and defining the
\* i-th child; the children are sent as new in list order; a batch of the
\* page holds no remove command and nothing but the adds and the page's set.
C5_OnlyAdds ==
    [][\A p \in Nodes :
          (SyncStep /\ Reconciled(p) /\ prev[p] = <<>> /\ children'[p] # <<>>)
          => LET adds == AddsTo(last'.cmds, p)
                 cs == children'[p]
             IN  /\ Len(adds) = Len(cs)
                 /\ \A i \in 1 .. Len(cs) :
                       /\ adds[i].attrs.at = StrV(ToString(i - 1))
                       /\ Defines(adds[i], cs[i])
                 /\ SelectSeq(last'.added, LAMBDA n : n \in Range(cs)) = cs
                 /\ p = PageNode
                    => /\ CommandsNamed(last'.cmds, "remove") = <<>>
                       /\ CommandsNamed(last'.cmds, "add") = adds
                       /\ last'.added = Flatten([i \in 1 .. Len(cs) |->
                              [j \in 1 .. Len(adds[i].commands) |->
                                  last'.added[j + Len(Flatten([k \in 1 .. i - 1 |->
                                      adds[k].commands]))]]])
                       /\ \A i \in 1 .. Len(last'.cmds) :
                             last'.cmds[i].name \in {"add", "set"}]_vars
\* Two controls added to the empty page: two adds, at 0 and at 1.
C5_Witness ==
    /\ nops = 1 /\ last.op = "add"
    /\ Len(children[PageNode]) = 2
    /\ Len(last.cmds) = 2
    /\ last.cmds[1].name = "add" /\ last.cmds[1].attrs.at = StrV("0")
    /\ last.cmds[2].name = "add" /\ last.cmds[2].attrs.at = StrV("1")

\* C8: a synchronization that fails (error reply or protocol fault) does not
\* advance the previous snapshots, and a Page.update() that directly follows
\* it sends the same commands again.
C8_Claim ==
    [][/\ (SyncStep /\ last'.raised) => prev' = prev
       /\ (/\ last.op \in SyncOps /\ last.raised
           /\ nops' = nops + 1 /\ last'.op = "update")
          => last'.cmds = last.cmds]_vars

\* C9: when the reply to a batch carries more or fewer ids than nodes were
\* accumulated for it, the synchronization raises.
C9_Claim ==
    (/\ last.op \in SyncOps /\ last.sent = 1
     /\ Len(ReplyIds(last.reply)) # Len(last.added))
    => last.raised

\* C10: when the reply to a command or to a batch carries a non-empty error
\* string, the call raises with exactly that string as its message, the
\* request was sent once, and no id of the reply is assigned: ids, page
\* references and index keys are those the build left.
C10_ErrorRaises ==
    [][(nops' = nops + 1 /\ last'.reply.error # "")
       => /\ last'.raised
          /\ last'.err = last'.reply.error
          /\ last'.sent = 1
          /\ uid' = uid /\ cpage' = cpage
          /\ DOMAIN index' \subseteq DOMAIN index
          /\ \A id \in Range(ReplyIds(last'.reply)) : id \notin DOMAIN index']_vars
\* A batch that added controls was answered with an error and ids.
C10_Witness ==
    /\ last.op \in SyncOps
    /\ last.reply.error = "boom" /\ ReplyIds(last.reply) # <<>>
    /\ last.raised /\ last.err = "boom"
    /\ last.added # <<>>
    /\ \A i \in 1 .. Len(last.added) : uid[last.added[i]] = NoUid

\* ------------------------------------------------------ transport properties
\* Thread t is blocked in evt.wait() / has been woken from it.
Waiting(t) == tl[t] # NoCall
Woken(t) == Waiting(t) /\ callbacks[tl[t].msg].set
\* The step is thread t's return from its call.
Returns(t) == Waiting(t) /\ tl'[t] = NoCall

\* C6: a caller of the synchronous send returns only after the host has
\* answered the message with its own correlation id, and with that answer's
\* payload, whatever the order of the replies; the arrival of a reply wakes
\* exactly one caller, the one that sent the request it answers.
C6_OwnReply ==
    [][/\ \A t \in Threads :
             Returns(t) => /\ Woken(t)
                           /\ tl[t].msg \in DOMAIN answers
                           /\ last'.reply = answers[tl[t].msg]
       /\ answers' # answers
          => LET woken == {t \in Threads : Woken(t)' /\ ~Woken(t)}
             IN  /\ Cardinality(woken) = 1
                 /\ \A t \in woken :
                       tl[t].msg \in DOMAIN answers' \ DOMAIN answers]_vars
\* Two callers were waiting; the later request was answered first and its
\* caller has returned with that payload while the earlier one still waits.
C6_Witness ==
    \E t \in Threads :
        /\ Waiting(t) /\ ~Woken(t)
        /\ tl[t].msg = 1 /\ nextMsg = 2
        /\ 2 \in DOMAIN answers /\ 2 \notin DOMAIN callbacks
        /\ last.sent = 1 /\ last.reply = answers[2]

\* Thread t is inside the locked section of a page operation.
InSync(t) == tl[t].op \in LockedOps
\* C7: calls of Page.add/insert/remove/remove_at/update/clean from two threads
\* do not overlap: at most one thread is between its build and its return,
\* and it holds the lock; while it is, no other call changes the tree, the
\* snapshots, the index or the ids; a batch on the wire is the batch of one
\* call; the ids of a reply go to nodes its own call accumulated and to none
\* that another call has accumulated.
C7_Serialized ==
    [][/\ \A t \in Threads :
             /\ InSync(t)' => lock' = t
             /\ \A u \in Threads \ {t} : ~(InSync(t)' /\ InSync(u)')
             /\ (InSync(t) /\ InSync(t)')
                => UNCHANGED <<children, prev, index, uid, cpage>>
             /\ (Returns(t) /\ tl[t].op \in SyncOps)
                => \A n \in Nodes :
                      uid'[n] # uid[n]
                      => /\ n \in Range(tl[t].added)
                         /\ \A u \in Threads \ {t} : n \notin Range(tl[u].added)
       /\ \A m \in wire' :
             Cardinality({t \in Threads :
                            tl'[t].msg = m.id /\ tl'[t].cmds = m.cmds}) = 1]_vars
\* One thread has added a control and received its id; now a thread is
\* inside an add of another control, holding the lock, the other not in a call.
C7_Witness ==
    \E t \in Threads : \E u \in Threads \ {t} :
        /\ InSync(t) /\ lock = t /\ tl[t].op = "add" /\ tl[t].added # <<>>
        /\ tl[u] = NoCall
        /\ last.op = "add" /\ last.sent = 1 /\ ~last.raised
        /\ \A i \in 1 .. Len(last.added) : uid[last.added[i]] \in DOMAIN index

\* ------------------------------------------------------ attribute properties
\* The definition commands of a batch, in the order of the added controls.
DefCommands(cmds) ==
    Flatten([i \in 1 .. Len(cmds) |->
               IF cmds[i].name = "add" THEN cmds[i].commands ELSE <<>>])
\* The "set" commands of a batch that carry the id of node n.
SetsOf(cmds, n) ==
    SelectSeq(cmds, LAMBDA c : c.name = "set" /\ c.values = <<UidV(uid[n])>>)
\* A synchronization puts into a set command of a node that holds an id only
\* attributes that were dirty when it started.
OnlyDirtySent ==
    SyncStep =>
        \A n \in Nodes : uid[n] # NoUid =>
            \A i \in 1 .. Len(SetsOf(last'.cmds, n)) :
                \A k \in DOMAIN SetsOf(last'.cmds, n)[i].attrs :
                    attrs[n][k].present /\ attrs[n][k].dirty

\* C13: assigning to an attribute the value it holds, when the attribute is
\* clean (its value synchronized), leaves the slot as it was, clean; and a
\* synchronization emits in a node's set command no attribute that is clean,
\* so the next one emits nothing for it.
C13_SameValueClean ==
    [][/\ \A n \in SetterNodes, v \in SetterValues :
             (/\ nops' = nops + 1
              /\ SetAttr(n, "label", v)
              /\ attrs[n]["label"].present
              /\ attrs[n]["label"].val = v
              /\ ~attrs[n]["label"].dirty)
             => attrs'[n]["label"] = attrs[n]["label"]
       /\ OnlyDirtySent]_vars
\* Control 2 got its label, was added, was (among the runs that lead here)
\* assigned the same label again, and the update that followed sent nothing.
C13_Witness ==
    /\ nops = 4
    /\ last.op = "update" /\ last.cmds = <<>>
    /\ uid[2] \in DOMAIN index
    /\ attrs[2]["label"] = Slot(PyStr("x"), FALSE)
    /\ attrs[PageNode]["label"] = NoAttr
    /\ uid[1] = NoUid

\* C16: an attribute that is absent (never assigned, or assigned None only)
\* is in no add or set command; assigning None to an absent attribute leaves
\* it absent (and so not dirty).
C16_AbsentNotSent ==
    [][/\ \A n \in SetterNodes :
             (/\ nops' = nops + 1
              /\ SetAttr(n, "label", PyNone)
              /\ ~attrs[n]["label"].present)
             => attrs'[n]["label"] = NoAttr
       /\ SyncStep =>
             /\ \A n \in Nodes :
                   \A i \in 1 .. Len(SetsOf(last'.cmds, n)) :
                       \A k \in DOMAIN SetsOf(last'.cmds, n)[i].attrs :
                           uid[n] # NoUid => attrs[n][k].present
             /\ \A i \in 1 .. Len(last'.added) :
                   \A k \in DOMAIN DefCommands(last'.cmds)[i].attrs :
                       attrs[last'.added[i]][k].present]_vars
\* Control 2 was assigned None for its label and then added: its definition
\* carries no attribute; the page, whose label was assigned, sent it.
C16_Witness ==
    /\ last.op = "add" /\ last.added = <<2>>
    /\ attrs[2]["label"] = NoAttr
    /\ attrs[PageNode]["label"] = Slot(PyStr("x"), FALSE)
    /\ Len(last.cmds) = 2
    /\ DOMAIN last.cmds[1].attrs = {"label"}
    /\ DOMAIN DefCommands(last.cmds)[1].attrs = {}

\* C12: a page "change" event stores each delta whose id is in the index
\* in that node's slot, clean (the slot is dirty afterwards only if it
\* already held that very value dirty, an assignment not yet synchronized),
\* and changes no other slot; a delta whose id is not in the index changes
\* nothing; a synchronization sends in set commands dirty attributes only.
C12_ChangeStoredClean ==
    [][/\ \A e \in ChangeEvents :
             (nops' = nops + 1 /\ OnEvent(e))
             => LET d == e.data[1]
                IN  IF d.i \in DOMAIN index
                    THEN /\ attrs'[index[d.i]][d.name].present
                         /\ attrs'[index[d.i]][d.name].val = PyStr(d.value)
                         /\ attrs'[index[d.i]][d.name].dirty
                            => attrs[index[d.i]][d.name] = Slot(PyStr(d.value), TRUE)
                         /\ \A n \in Nodes, k \in AttrNames :
                               (n # index[d.i] \/ k # d.name)
                               => attrs'[n][k] = attrs[n][k]
                    ELSE attrs' = attrs
       /\ SyncStep =>
             \A n \in Nodes, k \in AttrNames :
                 (uid[n] # NoUid /\ attrs[n][k].present /\ ~attrs[n][k].dirty)
                 => \A i \in 1 .. Len(SetsOf(last'.cmds, n)) :
                        k \notin DOMAIN SetsOf(last'.cmds, n)[i].attrs]_vars
\* Control 2 was added, the host's change event set its label, and the
\* update that followed sent nothing.
C12_Witness ==
    /\ nops = 3
    /\ last.op = "update" /\ last.cmds = <<>>
    /\ uid[2] \in DOMAIN index
    /\ attrs[2]["label"] = Slot(PyStr("y"), FALSE)

\* C15: the definition command of a node serialized as new carries the type
\* name of the node and every attribute its store holds, clean or dirty,
\* with its stored value; add, remove, clean and update change no stored
\* value. So a node added, removed (or cleaned away) and added again without
\* an assignment in between is defined the second time as the first.
C15_ReAddSameDefinition ==
    [][(nops' = nops + 1 /\ last'.op \in SyncOps \cup {"clean"})
       => /\ \A n \in Nodes, k \in AttrNames :
                /\ attrs'[n][k].present = attrs[n][k].present
                /\ attrs'[n][k].val = attrs[n][k].val
          /\ \A i \in 1 .. Len(last'.added) :
                LET c == last'.added[i]
                    def == DefCommands(last'.cmds)[i]
                    keys == {k \in AttrNames : attrs[c][k].present}
                IN  /\ def.name = ""
                    /\ def.values = <<StrV(ControlName(c))>>
                    /\ DOMAIN def.attrs = keys
                    /\ \A k \in keys \ {"id"} :
                          def.attrs[k] = StrV(SVal(attrs[c][k].val))]_vars
\* Control 2, labelled, was added, taken off the page and added again: its
\* second definition carries the label although the slot was clean.
C15_Witness ==
    /\ nops = 4
    /\ last.op = "add" /\ last.added = <<2>>
    /\ uid[2] = HostId(2) /\ uid[1] = NoUid
    /\ attrs[2]["label"] = Slot(PyStr("x"), FALSE)
    /\ DefCommands(last.cmds)[1].attrs = [k \in {"label"} |-> StrV("x")]

\* ------------------------------------------------------- the host's lists
\* The offset an add command carries in its "at" attribute.
AtOf(cmd) == CHOOSE i \in 0 .. NumControls : StrV(ToString(i)) = cmd.attrs.at
\* The child list the host holds for the parent with id to, after it has
\* applied the commands cmds in order to list: a remove deletes the ids it
\* lists, an add to the parent inserts the new node, whose id is the first
\* of the add's result line, at the offset the add carries.
RECURSIVE HostApply(_, _, _, _)
HostApply(list, cmds, lines, to) ==
    IF cmds = <<>> THEN list
    ELSE LET c == Head(cmds)
         IN  IF c.name = "remove"
             THEN HostApply(SelectSeq(list, LAMBDA x : StrV(x) \notin Range(c.values)),
                            Tail(cmds), lines, to)
             ELSE IF c.name = "add"
             THEN HostApply(IF c.attrs.to = StrV(to)
                            THEN InsertAt(list, AtOf(c), lines[1][1])
                            ELSE list,
                            Tail(cmds), Tail(lines), to)
             ELSE HostApply(list, Tail(cmds), lines, to)
\* The ids of a list of nodes.
UidsOf(u, cs) == [i \in 1 .. Len(cs) |-> u[cs[i]]]

\* C17: for a reconciled parent with previous snapshot P and current list C
\* (each node at most once), the remove and add commands of the batch,
\* applied in the emitted order to a host-side list that starts as the ids
\* of P, yield the ids of C in order; every add carries as "at" the index in
\* C of the node it defines.
C17_HostListRefines ==
    [][(SyncStep /\ last'.reply.kind \in {"ok", "none"})
       => \A p \in Nodes :
             (Reconciled(p) /\ uid[p] # NoUid
              /\ \A c \in Range(prev[p]) : uid[c] # NoUid)
             => /\ HostApply(UidsOf(uid, prev[p]), last'.cmds,
                             last'.reply.results, uid[p])
                   = UidsOf(uid', children'[p])
                /\ \A j \in 1 .. Len(CommandsNamed(last'.cmds, "add")) :
                      LET c == CommandsNamed(last'.cmds, "add")[j]
                      IN  c.attrs.to = StrV(uid[p])
                          => /\ AtOf(c) < Len(children'[p])
                             /\ uid'[children'[p][AtOf(c) + 1]]
                                = last'.reply.results[j][1]]_vars
\* The page held [A, B, C]; B was taken out and another node put in its
\* place, and the batch that reconciled it removed one id and added one node
\* at offset 1.
C17_Witness ==
    /\ last.op = "update" /\ last.reply.kind = "ok"
    /\ Len(last.cmds) = 2
    /\ last.cmds[1].name = "remove" /\ Len(last.cmds[1].values) = 1
    /\ last.cmds[2].name = "add" /\ AtOf(last.cmds[2]) = 1
    /\ Len(children[PageNode]) = 3
    /\ \A c \in Range(children[PageNode]) : uid[c] \in DOMAIN index

\* ------------------------------------------------- operations on a node
\* C14: update, remove or clean called for a control that has not been
\* attached to a page (Control.update, Control.clean, Page.update(c),
\* Page.remove(c)) raises in the caller before anything is sent, and leaves
\* the index, the previous snapshots and the attribute stores as they were.
C14_Claim ==
    [][\A c \in Controls :
          (/\ nops' = nops + 1
           /\ ~cpage[c] /\ uid[c] = NoUid
           /\ \/ ControlUpdate(c)
              \/ ControlClean(c)
              \/ PageUpdateControl(c)
              \/ PageRemoveOne(c))
          => /\ last'.raised /\ last'.sent = 0
             /\ UNCHANGED <<index, prev, attrs>>]_vars

\* ------------------------------------------------------ the pending table
\* The entry of a request that is registered and not answered.
Pending(cb, id) == id \in DOMAIN cb /\ cb[id] = NoCallback
\* The entry of a request whose reply is stored and whose event is set.
Completed(cb, id) == id \in DOMAIN cb /\ cb[id].set

\* C19: an entry of _ws_callbacks is created Pending under a fresh id, moves
\* only from Pending to Completed (payload stored, event set) and is removed
\* only when Completed, by the return of its caller; the table holds exactly
\* the ids of the calls that have not returned, and an id once removed never
\* comes back.
C19_PendingTable ==
    [][/\ DOMAIN callbacks' = {tl'[t].msg : t \in {u \in Threads : Waiting(u)'}}
       /\ \A id \in 1 .. nextMsg' :
             /\ (id \notin DOMAIN callbacks /\ id \in DOMAIN callbacks')
                => Pending(callbacks', id) /\ id > nextMsg
             /\ (id \in DOMAIN callbacks /\ id \in DOMAIN callbacks'
                 /\ callbacks'[id] # callbacks[id])
                => /\ Pending(callbacks, id) /\ Completed(callbacks', id)
                   /\ callbacks'[id].payload = answers'[id]
             /\ (id \in DOMAIN callbacks /\ id \notin DOMAIN callbacks')
                => /\ Completed(callbacks, id)
                   /\ \E t \in Threads : Returns(t) /\ tl[t].msg = id]_vars
\* The first request has been answered and its caller has returned: its id
\* is gone from the table; the second is answered and its caller not yet
\* woken up; a third is pending.
C19_Witness ==
    /\ nextMsg = 3
    /\ 1 \notin DOMAIN callbacks /\ 1 \in DOMAIN answers
    /\ Completed(callbacks, 2)
    /\ Pending(callbacks, 3)

\* ----------------------------------------------- pushes, close and clean
\* C11: a pushed message (empty id: a page event or a created session) wakes
\* no caller and leaves the pending table alone; its handler is started on a
\* thread of its own and has not run when _on_message returns; and while a
\* started handler has not run (it may be waiting for the page's lock), the
\* receive path can take every reply that is on the wire.
C11_PushOffReceivePath ==
    [][/\ \A m \in PushedMessages :
             (nops' = nops + 1 /\ OnPush(m))
             => /\ callbacks' = callbacks
                /\ \A t \in Threads : Woken(t)' = Woken(t)
                /\ m \in events'
                /\ UNCHANGED <<attrs, lastEvent, eventAvailable, started, lock>>
       /\ events # {} => \A r \in wire : ENABLED OnMessage(r)]_vars
\* A page event was pushed while an add held the page's lock; its handler
\* thread is started and has not run, and the reply of the add has been
\* delivered to the caller, which still holds the lock.
C11_Witness ==
    \E t \in Threads :
        /\ lock = t /\ Woken(t) /\ tl[t].op = "add"
        /\ \E m \in events : m.action = "pageEventToHost"

\* C20: from the close of the connection on, a caller that is blocked with
\* its reply not delivered stays blocked in its call: the close wakes no
\* caller and fails none, and such a caller is woken only by the delivery of
\* the reply that carries its message id.
C20_CloseLeavesBlocked ==
    [][\A t \in Threads :
          (closed' /\ Waiting(t) /\ ~Woken(t))
          => /\ tl'[t] = tl[t]
             /\ Woken(t)' => tl[t].msg \in DOMAIN answers' \ DOMAIN answers]_vars
\* The connection is closed; one caller is still blocked on a request that
\* was never answered, the other returned after the close with a reply that
\* was delivered after it.
C20_Witness ==
    /\ closed
    /\ \E t \in Threads :
          /\ Waiting(t) /\ ~Woken(t)
          /\ \E m \in wire : m.id = tl[t].msg
          /\ \A u \in Threads \ {t} : tl[u] = NoCall
    /\ last.sent = 1 /\ DOMAIN answers # {}

\* C18: Control.clean of a control of the page holds the page's lock while
\* it runs, and while a call of Page.add/insert/remove/update/clean of one
\* thread is between its build and its return no step of another call
\* changes the index or a previous snapshot.
C18_Claim ==
    [][\A t \in Threads :
          /\ (tl'[t].op = "control_clean" /\ tl[t] = NoCall) => lock' = t
          /\ (InSync(t) /\ InSync(t)') => UNCHANGED <<index, prev>>]_vars

\* ------------------------------------------------------- event properties
\* The step is the routing of the pushed event m by Page.on_event.
Routes(m) == m \in events /\ RunHandler(m)

\* C21: routing an event that is not the page's change event and whose
\* target id is in the index sets _last_event to it, starts the handler
\* bound to its name if there is one (and none otherwise), and sets
\* _event_available, so that every thread blocked in wait_event can return;
\* a thread returns from wait_event only when the event is set, and with
\* _last_event. Routing an event whose target is not in the index changes
\* neither _last_event nor _event_available and starts no handler.
C21_ControlEventRouted ==
    [][/\ \A m \in EventMessages :
             Routes(m)
             => IF m.e.target \in DOMAIN index
                THEN /\ lastEvent' = m.e
                     /\ eventAvailable'
                     /\ started' = IF m.e.name \in EventHandlers(index[m.e.target])
                                   THEN started \cup {m.e} ELSE started
                     /\ \A t \in Threads :
                           waiters[t] = "blocked" => waiters'[t] = "notified"
                ELSE UNCHANGED <<lastEvent, eventAvailable, started, waiters>>
       /\ \A t \in Threads :
             /\ waiters[t] = "notified" => ENABLED ReturnWait(t)
             /\ (waiters[t] # "idle" /\ waiters'[t] = "idle")
                => waiters[t] = "notified" /\ got'[t] = lastEvent
             /\ (waiters[t] = "blocked" /\ waiters'[t] # "blocked")
                => \E m \in EventMessages :
                      Routes(m) /\ m.e.target \in DOMAIN index]_vars
\* A thread that was blocked in wait_event has returned with the click on
\* the first control added, whose handler was started.
C21_Witness ==
    \E t \in Threads :
        /\ got[t] = Event(HostId(1), "click", <<>>)
        /\ got[t] \in started
        /\ waiters[t] = "idle"
        /\ HostId(1) \in DOMAIN index
\* The attributes of node n an incremental update sends: the dirty ones, the
\* "id" attribute apart.
DirtyAttrs(n) ==
    {k \in AttrNames \ {"id"} : attrs[n][k].present /\ attrs[n][k].dirty}
\* The nodes a synchronization emits a set command for.
SetNodes == {n \in Nodes : Reconciled(n) /\ uid[n] # NoUid /\ DirtyAttrs(n) # {}}

\* C22: in a synchronization, a reconciled node that holds an id and has at
\* least one dirty attribute (the "id" attribute apart, which is never sent
\* in a set command) emits exactly one set command: its positional value is
\* the node's id, its attrs are exactly the node's dirty attributes with
\* their string values, and these attributes are clean afterwards. A
\* reconciled node without an id or without a dirty attribute emits none:
\* the batch holds no other set command.
C22_SetCommand ==
    [][SyncStep =>
          /\ \A n \in SetNodes :
                LET sets == SetsOf(last'.cmds, n)
                IN  /\ Len(sets) = 1
                    /\ sets[1].values = <<StrV(uid[n])>>
                    /\ DOMAIN sets[1].attrs = DirtyAttrs(n)
                    /\ \A k \in DirtyAttrs(n) :
                          /\ sets[1].attrs[k] = StrV(SVal(attrs[n][k].val))
                          /\ attrs'[n][k] = Slot(attrs[n][k].val, FALSE)
          /\ Len(CommandsNamed(last'.cmds, "set")) = Cardinality(SetNodes)]_vars
\* The page and control 2 both had a dirty label when the update began: the
\* batch is their two set commands and both labels are clean.
C22_Witness ==
    /\ last.op = "update" /\ Len(last.cmds) = 2
    /\ \A i \in 1 .. 2 : last.cmds[i].name = "set"
    /\ last.cmds[1].values = <<StrV(PageUid)>>
    /\ last.cmds[2].values = <<StrV(uid[2])>>
    /\ attrs[PageNode]["id"].dirty
    /\ ~attrs[PageNode]["label"].dirty /\ ~attrs[2]["label"].dirty

\* The nesting step of get_cmd_str: a child's indent is its parent's plus 2.
IndentStep == 2
\* The nodes of the subtree of n in pre-order (a parent before its children,
\* children in list order), each with its depth below n.
RECURSIVE PreOrder(_, _, _)
RECURSIVE PreOrderEach(_, _, _)
PreOrder(ch, n, depth) == <<[n |-> n, d |-> depth]>> \o PreOrderEach(ch, ch[n], depth + 1)
PreOrderEach(ch, cs, depth) ==
    IF cs = <<>> THEN <<>>
    ELSE PreOrder(ch, Head(cs), depth) \o PreOrderEach(ch, Tail(cs), depth)
\* The commands out define the nodes of pre, one command per node in order,
\* the root at indent and a node of depth d at d nesting steps more, each
\* with the node's control-type name as its one positional value.
DefinesPreOrder(out, pre, indent) ==
    /\ Len(out) = Len(pre)
    /\ \A i \in 1 .. Len(pre) :
          /\ out[i].indent = indent + IndentStep * pre[i].d
          /\ out[i].values = <<StrV(ControlName(pre[i].n))>>
          /\ out[i].name = ""
\* The indents a serialization is asked for.
Indents == {0, IndentStep}

\* C23: get_cmd_str of any node returns one definition command per node of
\* its subtree in pre-order, the root's at the given indent and every child's
\* one nesting step (2) deeper than its parent's, each carrying the node's
\* control-type name as positional value, and appends the same nodes in the
\* same order to the accumulator of added controls. So for every add command
\* of a synchronization: its lines are the pre-order of the subtree of its
\* first node at indent 0, and the accumulator of the batch is the
\* concatenation of these pre-orders.
C23_PreOrderDefinitions ==
    [][SyncStep =>
          /\ \A n \in Nodes : \A pre \in {PreOrder(children', n, 0)} :
                \A indent \in Indents :
                    \A r \in {GetCmdStr(n, indent, StartBuild(children'))} :
                        /\ DefinesPreOrder(r.out, pre, indent)
                        /\ r.st.added = [i \in 1 .. Len(pre) |-> pre[i].n]
          /\ \A defs \in {DefCommands(last'.cmds)} :
                \A rootAt \in {SelectSeq([i \in 1 .. Len(defs) |-> i],
                                         LAMBDA i : defs[i].indent = 0)} :
                    \A pres \in {Flatten([j \in 1 .. Len(rootAt) |->
                                    PreOrder(children', last'.added[rootAt[j]], 0)])} :
                        /\ Len(defs) = Len(last'.added)
                        /\ Len(rootAt) = Len(CommandsNamed(last'.cmds, "add"))
                        /\ \A j \in 1 .. Len(last'.cmds) :
                              last'.cmds[j].name = "add"
                              => /\ last'.cmds[j].commands # <<>>
                                 /\ last'.cmds[j].commands[1].indent = 0
                        /\ DefinesPreOrder(defs, pres, 0)
                        /\ last'.added = [i \in 1 .. Len(pres) |-> pres[i].n]]_vars
\* The callout 1 with the two children 3 and 2 was added by one add command
\* of three lines, the children one step below the callout.
C23_Witness ==
    /\ last.op = "add" /\ last.added = <<1, 3, 2>>
    /\ Len(last.cmds) = 1
    /\ [i \in 1 .. 3 |-> last.cmds[1].commands[i].indent] = <<0, 2, 2>>
    /\ last.cmds[1].commands[1].values = <<StrV("callout")>>

\* The ids the host has handed out so far.
MintedIds == {HostId(i) : i \in 1 .. nextId}

\* C24: when a synchronization serializes as new a node whose id is in the
\* index, the id is out of the index when the build is over, whatever the
\* reply; the host's well-formed reply assigns the node an id, and an id the
\* node is assigned is a new one that the index maps to the node. In every state a node is indexed under no id
\* but the one it holds, and a node is only ever given an id the host has not
\* handed out before: so the old id never maps to the node again.
C24_OldIdReclaimed ==
    [][/\ SyncStep =>
             \A n \in Range(last'.added) :
                 (uid[n] \in DOMAIN index /\ index[uid[n]] = n)
                 => /\ uid[n] \notin DOMAIN index'
                    /\ uid'[n] \in DOMAIN index'
                       => /\ uid'[n] # uid[n]
                          /\ index'[uid'[n]] = n
                    /\ last'.reply.kind = "ok" => uid'[n] \in DOMAIN index'
       /\ \A n \in Controls :
             /\ uid'[n] # uid[n] => uid'[n] \notin MintedIds
             /\ \A k \in DOMAIN index' : index'[k] = n => k = uid'[n]]_vars
\* Control 2 was added inside the callout 1 and got the id _2; it was popped
\* from the callout, the callout was removed from the page, and 2 was added
\* to the page: it holds _3 and _2 is indexed no more.
C24_Witness ==
    /\ last.op = "add" /\ last.added = <<2>> /\ last.reply.kind = "ok"
    /\ children[PageNode] = <<2>> /\ children[1] = <<>>
    /\ uid[2] = HostId(3)
    /\ uid[1] = HostId(1)
    /\ DOMAIN index = {PageUid, HostId(3)}
    /\ index[HostId(3)] = 2

\* C25: when a synchronization of the page is over, whatever the reply, the
\* previous snapshot of every node of the page's tree equals the node's
\* current child list (the same nodes in the same order): of every node it
\* reconciled and of every node of a subtree it serialized as new.
C25_SnapshotIsChildren ==
    [][SyncStep =>
          \A p \in Subtree(children', PageNode) :
              /\ Reconciled(p) \/ p \in Range(last'.added)
              /\ prev'[p] = children'[p]]_vars
\* Control 3 was inserted into the callout 1, a child of the page with the
\* child 2, and the update serialized 3 as new; the callout was reconciled.
C25_Witness ==
    /\ last.op = "update" /\ last.added = <<3>>
    /\ children[PageNode] = <<1>>
    /\ children[1] = <<2, 3>> /\ prev[1] = <<2, 3>>
    /\ prev[3] = <<>> /\ prev[PageNode] = <<1>>

\* No call is in progress and every list of the page's tree was synchronized.
TreeSynced ==
    /\ lock = NoThread
    /\ \A t \in Threads : tl[t] = NoCall
    /\ \A p \in Subtree(children, PageNode) : prev[p] = children[p]

\* C26: when every change of the page's tree has been synchronized, routing
\* an event whose target is the id of a control that is in the tree no more
\* (it was removed, or was a descendant of a control that was removed)
\* starts no handler and signals no waiter.
C26_Claim ==
    [][\A m \in EventMessages :
          (/\ Routes(m)
           /\ TreeSynced
           /\ \E n \in Controls :
                 uid[n] = m.e.target /\ n \notin Subtree(children, PageNode))
          => /\ started' = started
             /\ eventAvailable' = eventAvailable
             /\ waiters' = waiters]_vars

\* C27: Page.clean() leaves the page with an empty child list and an empty
\* previous snapshot and the index with the "page" entry alone, and sends
\* exactly one command, "clean" with the page's id; the Page.add that
\* directly follows emits one add per new child, at the offsets 0, 1, ...,
\* and no remove.
C27_Claim ==
    [][/\ (nops' = nops + 1 /\ last'.op = "clean")
          => /\ children'[PageNode] = <<>>
             /\ prev'[PageNode] = <<>>
             /\ DOMAIN index' = {PageUid}
             /\ last'.sent = 1
             /\ last'.cmds = <<Command(0, "clean", <<StrV(PageUid)>>, EmptyAttrs, <<>>)>>
       /\ (last.op = "clean" /\ SyncStep /\ last'.op = "add")
          => /\ CommandsNamed(last'.cmds, "remove") = <<>>
             /\ Len(AddsTo(last'.cmds, PageNode)) = Len(children'[PageNode])
             /\ \A i \in 1 .. Len(AddsTo(last'.cmds, PageNode)) :
                   AddsTo(last'.cmds, PageNode)[i].attrs.at = StrV(ToString(i - 1))]_vars

\* The commands of a batch with the definition commands inside its adds.
AllCommands(cmds) == cmds \o DefCommands(cmds)

\* C28: every value in the attrs of every command a call emits (the
\* commands of the batch and the definition commands inside its adds) is a
\* string; an attribute of a definition command, the "id" the application
\* gave the node included, is the string form of the value the node holds.
C28_Claim ==
    [][nops' = nops + 1 =>
          /\ \A i \in 1 .. Len(AllCommands(last'.cmds)) :
                \A k \in DOMAIN AllCommands(last'.cmds)[i].attrs :
                    AllCommands(last'.cmds)[i].attrs[k].kind = "str"
          /\ \A i \in 1 .. Len(last'.added) :
                \A k \in DOMAIN DefCommands(last'.cmds)[i].attrs :
                    DefCommands(last'.cmds)[i].attrs[k]
                        = StrV(SVal(attrs[last'.added[i]][k].val))]_vars

\* C29: a page event may arrive while a synchronization holds the page's
\* lock: the receive path takes it without waiting (its handler thread is
\* started, nothing else changes), the handler does not run while the lock
\* is held, the receive path can still take every reply, a caller whose
\* reply is in can return, and a handler can run once the lock is free. So
\* when an event is pending while a caller holds the lock, the caller's call
\* completes and the event is routed afterwards: there is no deadlock.
C29_EventDuringSync ==
    /\ [][/\ \A m \in EventMessages :
                /\ (nops' = nops + 1 /\ OnPush(m))
                   => /\ m \in events'
                      /\ UNCHANGED <<lock, tl, callbacks, wire, lastEvent,
                                     eventAvailable, started>>
                /\ (lock # NoThread /\ nops < MaxOps) => ENABLED OnPush(m)
                /\ Routes(m) => lock = NoThread /\ \A t \in Threads : ~Waiting(t)
                /\ (lock = NoThread /\ m \in events) => ENABLED RunHandler(m)
          /\ \A t \in Threads :
                lock = t => /\ \A r \in wire : ENABLED OnMessage(r)
                            /\ Woken(t) => ENABLED Return(t)]_vars
    /\ \A t \in Threads, m \in EventMessages :
          (lock = t /\ Waiting(t) /\ m \in events)
          ~> (tl[t] = NoCall /\ lock = NoThread /\ m \notin events)
\* The click on control 1 arrived while the add of control 1 held the lock;
\* the reply of the add has been delivered since, and the handler thread of
\* the click has not run.
C29_Witness ==
    \E t \in Threads :
        /\ lock = t /\ Woken(t) /\ tl[t].added = <<1, 2>>
        /\ events = {Push("pageEventToHost", Event(HostId(1), "click", <<>>))}
        /\ started = {} /\ ~eventAvailable

\* Thread t is inside Page.update(), between taking the lock and its return.
Serializing(t) == lock = t
\* Thread t's step completes an assignment of the label.
Assigns(t) == local[t].at = "set" /\ local'[t] = NoLocal

\* C30: an assignment of the label that a thread completes while another
\* thread is inside Page.update() of the node is not lost: when the
\* assignment completes the store holds the assigned value, and from then on
\* no step of the synchronizing thread replaces the value the store holds,
\* nor marks it clean unless it is the value put into the batch.
C30_Claim ==
    [][\A t \in Threads :
          /\ Assigns(t) => attrs'[RaceNode]["label"].val = local[t].v
          /\ (Serializing(t) /\ local'[t] # local[t])
             => /\ attrs'[RaceNode]["label"].val = attrs[RaceNode]["label"].val
                /\ (attrs[RaceNode]["label"].dirty /\ ~attrs'[RaceNode]["label"].dirty)
                   => local'[t].cattrs
                        = [k \in {"label"} |-> StrV(SVal(attrs'[RaceNode]["label"].val))]]_vars

\* C31: once a signin event of the page has been routed after show_signin's
\* update was sent, show_signin returns True; once a dismissSignin event
\* has been routed, it returns False: the event is not lost, whatever the
\* order of its routing and wait_event's clear() and wait().
SigninRouted(t, n) ==
    /\ local[t].at = "signin" /\ tl[t] = NoCall
    /\ lastEvent = Event("page", n, <<>>)
    /\ events = {}
C31_Claim ==
    \A t \in Threads :
        (SigninRouted(t, "signin") \/ SigninRouted(t, "dismissSignin"))
            ~> (local[t].at = "returned")

\* C32: two change events of the same attribute of the same node are
\* applied to the store in the order they were received: the change to "y",
\* received before every change to "z", is never applied after one of
\* them, so that once all are routed the store holds the later value.
C32_Claim ==
    [][RunHandler(ChangeTo("y")) => ~attrs[PageNode]["label"].present]_vars

\* C33: after every synchronization of the page that returns without an
\* error the index holds no stale entry: every key other than "page" is the
\* id of a node that is reachable from the page.
C33_Claim ==
    [][(SyncStep /\ ~last'.raised)
       => \A key \in DOMAIN index' \ {PageUid} :
             /\ index'[key] \in Subtree(children', PageNode)
             /\ uid'[index'[key]] = key]_vars

\* C34: when a synchronization of the page has returned without an error
\* and no reply so far was ill-formed or an error, every node reachable from
\* the page has an assigned id, records the page as its page and is in the
\* index under its id.
C34_AllReachableIndexed ==
    (last.op \in SyncOps /\ ~last.raised /\ faults = 0)
    => \A n \in Subtree(children, PageNode) :
          /\ uid[n] # NoUid
          /\ n # PageNode => cpage[n]
          /\ uid[n] \in DOMAIN index
          /\ index[uid[n]] = n
\* A container and its child were added, removed and added again: both are
\* indexed under their new ids.
C34_Witness ==
    /\ last.op = "add" /\ last.sent = 1 /\ ~last.raised /\ faults = 0
    /\ Len(last.added) = 2
    /\ Cardinality(DOMAIN index) = 3
    /\ nextId > 3

\* C35: as long as every reply was well-formed, every index entry is
\* consistent: the node indexed under an id has that id as its assigned id,
\* so that no node is indexed under two different ids.
C35_IndexConsistent ==
    faults = 0
    => /\ \A key \in DOMAIN index : uid[index[key]] = key
       /\ \A k1, k2 \in DOMAIN index : index[k1] = index[k2] => k1 = k2
\* A control that was added, removed and added again is indexed under its
\* second id alone.
C35_Witness ==
    /\ faults = 0 /\ last.op = "add" /\ last.sent = 1 /\ ~last.raised
    /\ \E c \in Controls :
          /\ uid[c] = HostId(2)
          /\ index = [k \in {PageUid, HostId(2)} |-> IF k = PageUid THEN PageNode ELSE c]

\* C36: when a call of Page.add/insert/remove/update/clean raises (the reply
\* carries an error string, or more ids than nodes were accumulated), the
\* page's lock is released by the same step: no thread that is not in a call
\* holds it, and whenever it is free a thread can enter a synchronization
\* and the handler of every pending event can run.
C36_RaiseReleasesLock ==
    /\ [][\A t \in Threads :
             (Returns(t) /\ tl[t].op \in LockedOps /\ last'.raised)
             => lock = t /\ lock' = NoThread]_vars
    /\ [](/\ \A t \in Threads : lock = t => Waiting(t) /\ InSync(t)
          /\ (lock = NoThread /\ nops < MaxOps)
             => /\ \A t \in Threads :
                      tl[t] = NoCall
                      => ENABLED BeginSync(t, "update", children, <<PageNode>>)
                /\ \A m \in events : ENABLED RunHandler(m))
\* A synchronization has raised, and now another call holds the lock while
\* the handler thread of an event waits for it.
C36_Witness ==
    /\ last.raised /\ last.op \in SyncOps /\ last.sent = 1
    /\ \E t \in Threads : lock = t /\ Waiting(t) /\ tl[t].msg > 1
    /\ events # {}

\* C37: as long as the reply to a synchronization has not arrived, the call
\* keeps the page's lock: no step but the delivery of its reply changes the
\* call, no thread can enter Page.add/insert/remove/update/clean and no
\* handler thread can route an event, while the receive path goes on: it
\* takes every reply that arrives and every pushed message.
C37_NoReplyHoldsLock ==
    /\ [][\A t \in Threads :
             (lock = t /\ ~Woken(t) /\ tl[t].msg \notin DOMAIN answers')
             => /\ lock' = t /\ tl'[t] = tl[t] /\ ~Woken(t)'
                /\ UNCHANGED <<children, prev, index, uid, cpage>>]_vars
    /\ [](\A t \in Threads :
             (lock = t /\ ~Woken(t))
             => /\ \A u \in Threads :
                      /\ ~ENABLED BeginSync(u, "update", children, <<PageNode>>)
                      /\ ~ENABLED BeginClean(u)
                      /\ \A c \in Controls :
                            ~ENABLED BeginSync(u, "add",
                                         [children EXCEPT ![PageNode] = Append(@, c)],
                                         <<PageNode>>)
                /\ \A m \in events :
                      m.action = "pageEventToHost" => ~ENABLED RunHandler(m)
                /\ \A m \in wire : ENABLED OnMessage(m)
                /\ nops < MaxOps => \A m \in PushedMessages : ENABLED OnPush(m))
\* A thread holds the lock in an add whose reply has not arrived; a page
\* event was received meanwhile and its handler thread waits for the lock;
\* the other thread is in no call.
C37_Witness ==
    \E t \in Threads :
        /\ lock = t /\ Waiting(t) /\ ~Woken(t) /\ tl[t].op = "add"
        /\ \E m \in events : m.action = "pageEventToHost"
        /\ \A u \in Threads \ {t} : tl[u] = NoCall

\* C38: when the host answers every request and the threads are scheduled,
\* every call that took the page's lock returns and releases it, every
\* started Page.on_event gets the lock and returns, and the lock is held
\* only by a thread that waits for the reply to its own request: no thread
\* waits for the lock while it holds it.
C38_LockReleased ==
    /\ \A t \in Threads : (lock = t) ~> (lock # t /\ tl[t] = NoCall)
    /\ \A m \in LockMessages : (m \in events) ~> (m \notin events)
    /\ [](\A t \in Threads : lock = t => Waiting(t) /\ InSync(t))
\* The handler of a click has been started, has assigned the control's
\* label and is inside Page.update, holding the lock.
C38_Witness ==
    /\ started # {}
    /\ \E t \in Threads :
          /\ lock = t /\ tl[t].op = "update" /\ local[t] = NoLocal
          /\ Len(tl[t].cmds) = 1 /\ tl[t].cmds[1].name = "set"

\* C39: the id of a request is registered as pending before the message is
\* handed to the socket: every request that is with the host has its entry
\* in _ws_callbacks, still Pending, so that whenever its reply arrives the
\* receive path finds the entry and completes it.
C39_RegisteredBeforeSent ==
    /\ [](\A m \in wire : Pending(callbacks, m.id))
    /\ [][\A m \in wire :
             OnMessage(m) => Pending(callbacks, m.id) /\ Completed(callbacks', m.id)]_vars
\* A reply has arrived while the other thread had registered its callback
\* and had not yet sent its message: the first call is completed, the second
\* entry is pending with nothing on the wire.
C39_Witness ==
    \E t \in Threads : \E u \in Threads \ {t} :
        /\ local[t].at = "idle" /\ Woken(t)
        /\ local[u].at = "send2" /\ Pending(callbacks, tl[u].msg)
        /\ wire = {}

\* Control c is synchronized: it records the page and is indexed under its id.
Synchronized(c) == cpage[c] /\ uid[c] \in DOMAIN index /\ index[uid[c]] = c
\* The step is Control.clean of the synchronized control c.
CleanOf(c) ==
    /\ nops' = nops + 1 /\ last'.op = "control_clean"
    /\ Synchronized(c) /\ last'.sent = 1 /\ last'.cmds[1].values = <<UidV(uid[c])>>
\* The step is a synchronization that reconciles control c: one of the
\* page, or Page.update(c).
Reaches(c) ==
    \/ PageUpdate
    \/ PageUpdateControl(c)
    \/ \E a \in Controls : PageAdd(<<a>>)
\* C40: Control.clean of a synchronized control empties the
\* control's previous snapshot and takes what is below the control out of
\* the index, and leaves every child list as it is; the synchronization
\* that follows and reaches the control adds all its children again: one
\* add per child to the control, at the offsets 0, 1, ..., each child with
\* an id that was not assigned before and indexed under it.
C40_CleanThenRefill ==
    [][\A c \in Controls :
          /\ CleanOf(c)
             => /\ prev'[c] = <<>>
                /\ children' = children
                /\ uid' = uid
                /\ uid[c] \in DOMAIN index' /\ index'[uid[c]] = c
                /\ \A d \in Subtree(children, c) \ {c} :
                      \A key \in DOMAIN index' : index'[key] # d
          /\ (last.op = "control_clean" /\ last.sent = 1
              /\ last.cmds[1].values = <<UidV(uid[c])>>
              /\ Synchronized(c) /\ c \in Subtree(children, PageNode)
              /\ SyncStep /\ Reaches(c))
             => /\ Len(AddsTo(last'.cmds, c)) = Len(children[c])
                /\ prev'[c] = children[c]
                /\ \A i \in 1 .. Len(children[c]) :
                      \E d \in {children[c][i]} :
                         /\ AddsTo(last'.cmds, c)[i].attrs.at = StrV(ToString(i - 1))
                         /\ uid'[d] \notin DOMAIN index
                         /\ uid'[d] # uid[d]
                         /\ \A n \in Nodes : uid'[d] # uid[n]
                         /\ uid'[d] \in DOMAIN index' /\ index'[uid'[d]] = d]_vars
\* The callout was added with its two children, cleaned, and the page was
\* updated: both children were added again and have their second ids.
C40_Witness ==
    /\ last.op = "update" /\ last.sent = 1 /\ ~last.raised
    /\ last.added = <<2, 3>>
    /\ children[1] = <<2, 3>>
    /\ uid[2] = HostId(4) /\ uid[3] = HostId(5)
    /\ DOMAIN index = {PageUid, HostId(1), HostId(4), HostId(5)}

====
